---- MODULE Spec2Model ----
(***************************************************************************)
(* A model of two parts of ticketron:                                      *)
(*   - internal/llm/parser.go: ParseLLMResponse, which finds a JSON        *)
(*     object in a language model's free text, decodes it and validates it;*)
(*   - cmd/search.go: getValueByPath / getValueRecursive, which resolve a  *)
(*     dot-separated path against a value by reflection.                   *)
(* A Go string is a sequence of characters, each character a TLA+ string.  *)
(***************************************************************************)
EXTENDS Integers, Sequences, FiniteSets, TLC

VARIABLES
    rawResponse,   \* ParseLLMResponse's argument
    shape,         \* how rawResponse was put together (history, never read by the code)
    pc,            \* "call" before ParseLLMResponse ran, "done" after
    jsonStr,       \* the candidate handed to json.Unmarshal, NoCandidate when none was located
    unmarshalCalls,\* how many times json.Unmarshal was called
    response,      \* the LLMResponse returned
    err,           \* the error returned
    data,          \* getValueByPath's record argument
    path,          \* getValueByPath's path argument
    pathPc,        \* "call" before getValueByPath ran, "done" after
    ret,           \* getValueByPath's result: [val, found], with the values visited and the lines printed
    flags,         \* searchRunE: the flags jql, output and output-fields of the command
    args,          \* searchRunE: the positional arguments
    mcp,           \* what mcpClient.SearchIssues returns: [err, Issues]
    outWriter,     \* what searchRunE wrote to out, one entry for each Fprintln or Fprintf
    errOut,        \* how many lines searchRunE wrote to cmd.ErrOrStderr()
    runErr,        \* the error searchRunE returned
    searchCalls,   \* how many times mcpClient.SearchIssues was called
    searchPc,      \* "call" before searchRunE ran, "done" after
    cmd,           \* createCmdRunner.Run: the flags, the standard input and the clients of the runner
    createPc,      \* the call that Run makes next, "returned" after Run returned
    calls,         \* the calls Run made on its collaborators, in order, each with the error it returned
    createErr,     \* the error Run returned
    createOut      \* what Run wrote, in order: <<stream, text>>

vars == <<rawResponse, shape, pc, jsonStr, unmarshalCalls, response, err,
          data, path, pathPc, ret,
          flags, args, mcp, outWriter, errOut, runErr, searchCalls, searchPc,
          cmd, createPc, calls, createErr, createOut>>

parseVars == <<rawResponse, shape, pc, jsonStr, unmarshalCalls, response, err>>
pathVars == <<data, path, pathPc, ret>>
searchVars == <<flags, args, mcp, outWriter, errOut, runErr, searchCalls, searchPc>>

\* searchRunE is not part of the behaviour.
SearchIdle ==
    /\ flags = [jql |-> <<>>, output |-> <<>>, outputFields |-> <<>>]
    /\ args = <<>>
    /\ mcp = [err |-> "nil", Issues |-> <<>>]
    /\ outWriter = <<>>
    /\ errOut = 0
    /\ runErr = "nil"
    /\ searchCalls = 0
    /\ searchPc = "idle"

createVars == <<cmd, createPc, calls, createErr, createOut>>

\* createCmdRunner.Run is not part of the behaviour.
CreateIdle ==
    /\ cmd = [interactive |-> FALSE, output |-> "", stdin |-> <<>>,
              llmClient |-> "nil", mcpClient |-> "nil"]
    /\ createPc = "idle"
    /\ calls = <<>>
    /\ createErr = "nil"
    /\ createOut = <<>>

----------------------------------------------------------------------------
(* Characters and strings *)

\* The backtick (written as a name: the character itself cannot stand in a TLA+ string).
Tick == "BACKTICK"
LBrace == "{"
RBrace == "}"
Quote == "\""
Backslash == "\\"

\* A sequence of n backticks.
Ticks(n) == [i \in 1..n |-> Tick]

\* The text s[a..b], empty when b < a.
Slice(s, a, b) == IF b < a THEN <<>> ELSE SubSeq(s, a, b)

SeqMax(S) == CHOOSE x \in S : \A y \in S : y <= x

\* The concatenation of a sequence of strings.
RECURSIVE Concat(_)
Concat(ss) == IF ss = <<>> THEN <<>> ELSE Head(ss) \o Concat(Tail(ss))

Lowers == <<"a", "b", "c", "d", "e", "f", "g", "h", "i", "j", "k", "l", "m",
            "n", "o", "p", "q", "r", "s", "t", "u", "v", "w", "x", "y", "z">>
Uppers == <<"A", "B", "C", "D", "E", "F", "G", "H", "I", "J", "K", "L", "M",
            "N", "O", "P", "Q", "R", "S", "T", "U", "V", "W", "X", "Y", "Z">>

\* The lower-case form of a character.
LowerChar(c) ==
    IF \E i \in 1..26 : Uppers[i] = c
    THEN Lowers[CHOOSE i \in 1..26 : Uppers[i] = c]
    ELSE c

ToLower(s) == [i \in 1..Len(s) |-> LowerChar(s[i])]

\* strings.EqualFold on the model's alphabet.
EqualFold(s, t) == ToLower(s) = ToLower(t)

\* unicode.IsSpace on the model's alphabet: what strings.TrimSpace removes.
\* VT is the vertical tab, which no TLA+ string escape writes.
IsSpace(c) == c \in {" ", "\n", "\t", "\r", "\f", "VT"}

\* The regexp class \s: [\t\n\f\r ].
IsRegexSpace(c) == c \in {" ", "\n", "\t", "\r", "\f"}

\* strings.TrimSpace: the text without its leading and trailing white space.
TrimSpace(s) ==
    LET keep == {i \in 1..Len(s) : ~IsSpace(s[i])}
    IN IF keep = {} THEN <<>>
       ELSE Slice(s, CHOOSE i \in keep : \A j \in keep : i <= j, SeqMax(keep))

HasPrefix(s, p) == Len(s) >= Len(p) /\ SubSeq(s, 1, Len(p)) = p
HasSuffix(s, p) == Len(s) >= Len(p) /\ SubSeq(s, Len(s) - Len(p) + 1, Len(s)) = p

----------------------------------------------------------------------------
(* jsonRegex: (?s)\x60{3}(?:[jJ][sS][oO][nN])?\s*(\{.*\})\s*\x60{3} *)

\* Three backticks start at position i.
TicksAt(s, i) == i >= 1 /\ i + 2 <= Len(s) /\ s[i] = Tick /\ s[i+1] = Tick /\ s[i+2] = Tick

\* A tag matched in lower case only.
TagAtLowerOnly(s, i) ==
    i + 3 <= Len(s) /\ SubSeq(s, i, i + 3) = <<"j", "s", "o", "n">>

\* [jJ][sS][oO][nN] starts at position i.
TagAt(s, i) ==
    /\ i + 3 <= Len(s)
    /\ s[i] \in {"j", "J"} /\ s[i+1] \in {"s", "S"}
    /\ s[i+2] \in {"o", "O"} /\ s[i+3] \in {"n", "N"}

\* \s* from position p: the first position at or after p that holds no white
\* space (Len(s)+1 at the end of the text). What follows \s* in the pattern is
\* never white space, so only the longest run can lead to a match.
SkipSpace(s, p) ==
    LET stops == {q \in p..Len(s) : ~IsRegexSpace(s[q])}
    IN IF stops = {} THEN Len(s) + 1 ELSE CHOOSE q \in stops : \A r \in stops : q <= r

\* The positions e of a closing brace that \s*\x60{3} follows.
ClosersAfter(s, q) ==
    {e \in (q+1)..Len(s) : s[e] = RBrace /\ TicksAt(s, SkipSpace(s, e + 1))}

\* .* is greedy: of the closing braces that let the rest match, the last one.
CaptureEnd(s, q) == SeqMax(ClosersAfter(s, q))

\* \s*(\{.*\})\s*\x60{3} from position p: the group's span, or none.
BodyMatch(s, p) ==
    LET q == SkipSpace(s, p)
    IN IF q <= Len(s) /\ s[q] = LBrace /\ ClosersAfter(s, q) # {}
       THEN [ok |-> TRUE, from |-> q, to |-> CaptureEnd(s, q)]
       ELSE [ok |-> FALSE, from |-> 0, to |-> 0]

\* The pattern anchored at position i. (?:...)? prefers the tag and falls back
\* to no tag.
MatchAt(s, i) ==
    IF ~TicksAt(s, i) THEN [ok |-> FALSE, from |-> 0, to |-> 0]
    ELSE IF TagAt(s, i + 3) /\ BodyMatch(s, i + 7).ok THEN BodyMatch(s, i + 7)
    ELSE BodyMatch(s, i + 3)

\* jsonRegex.FindStringSubmatch: for the leftmost match, <<match, group 1>>;
\* the empty sequence when nothing matches.
FindStringSubmatch(s) ==
    LET starts == {i \in 1..Len(s) : MatchAt(s, i).ok}
    IN IF starts = {} THEN <<>>
       ELSE LET i == CHOOSE k \in starts : \A l \in starts : k <= l
                m == MatchAt(s, i)
            IN <<Slice(s, i, SkipSpace(s, m.to + 1) + 2), Slice(s, m.from, m.to)>>

----------------------------------------------------------------------------
(* encoding/json: json.Unmarshal into an LLMResponse *)

\* The white space of the JSON grammar.
IsJSONSpace(c) == c \in {" ", "\n", "\t", "\r"}

SkipJSONSpace(s, p) ==
    LET stops == {q \in p..Len(s) : ~IsJSONSpace(s[q])}
    IN IF stops = {} THEN Len(s) + 1 ELSE CHOOSE q \in stops : \A r \in stops : q <= r

IsDigit(c) == c \in {"0", "1", "2", "3", "4", "5", "6", "7", "8", "9"}

\* A character that may not stand unescaped inside a JSON string (below 0x20).
IsControl(c) == c \in {"\n", "\t", "\r", "\f", "VT"}

\* The character an escape sequence \c stands for; \uXXXX is not modelled (no
\* text of the model holds one) and counts as malformed.
EscapeOf == [c \in {Quote, Backslash, "/", "n", "t", "r", "f"} |->
               CASE c = "n" -> "\n" [] c = "t" -> "\t" [] c = "r" -> "\r"
                 [] c = "f" -> "\f" [] OTHER -> c]

ScanFail == [ok |-> FALSE, next |-> 0, t |-> "invalid", str |-> <<>>, members |-> <<>>]
Scanned(n, t, str, members) == [ok |-> TRUE, next |-> n, t |-> t, str |-> str, members |-> members]

\* The rest of a string literal from position j (after the opening quote),
\* acc being the characters decoded so far.
RECURSIVE StringBody(_, _, _)
StringBody(s, j, acc) ==
    IF j > Len(s) THEN ScanFail
    ELSE IF s[j] = Quote THEN Scanned(j + 1, "string", acc, <<>>)
    ELSE IF s[j] = Backslash
         THEN IF j + 1 <= Len(s) /\ s[j+1] \in DOMAIN EscapeOf
              THEN StringBody(s, j + 2, Append(acc, EscapeOf[s[j+1]]))
              ELSE ScanFail
    ELSE IF IsControl(s[j]) THEN ScanFail
    ELSE StringBody(s, j + 1, Append(acc, s[j]))

\* The first position at or after p that holds no digit.
SkipDigits(s, p) ==
    LET stops == {q \in p..Len(s) : ~IsDigit(s[q])}
    IN IF stops = {} THEN Len(s) + 1 ELSE CHOOSE q \in stops : \A r \in stops : q <= r

\* A number literal from position i: -? (0 | [1-9][0-9]*) (. [0-9]+)? ([eE] [+-]? [0-9]+)?
ScanNumber(s, i) ==
    LET d == IF s[i] = "-" THEN i + 1 ELSE i
        intEnd == IF d <= Len(s) /\ s[d] = "0" THEN d + 1 ELSE SkipDigits(s, d)
        fracEnd == IF intEnd <= Len(s) /\ s[intEnd] = "." THEN SkipDigits(s, intEnd + 1) ELSE intEnd
        fracOk == fracEnd = intEnd \/ fracEnd > intEnd + 1
        e == IF fracEnd <= Len(s) /\ s[fracEnd] \in {"e", "E"}
             THEN IF fracEnd + 1 <= Len(s) /\ s[fracEnd + 1] \in {"+", "-"} THEN fracEnd + 2 ELSE fracEnd + 1
             ELSE fracEnd
        expEnd == IF e = fracEnd THEN fracEnd ELSE SkipDigits(s, e)
        expOk == e = fracEnd \/ expEnd > e
    IN IF intEnd > d /\ fracOk /\ expOk THEN Scanned(expEnd, "number", <<>>, <<>>) ELSE ScanFail

\* The literal word w (true, false, null) at position i.
ScanWord(s, i, w, t) ==
    IF i + Len(w) - 1 <= Len(s) /\ SubSeq(s, i, i + Len(w) - 1) = w
    THEN Scanned(i + Len(w), t, <<>>, <<>>) ELSE ScanFail

RECURSIVE ScanValue(_, _), ScanElements(_, _), ScanMembers(_, _, _)

\* The value that starts at position i: where it ends, its type, the decoded
\* text of a string, the members of an object.
ScanValue(s, i) ==
    IF i > Len(s) THEN ScanFail
    ELSE IF s[i] = Quote THEN StringBody(s, i + 1, <<>>)
    ELSE IF s[i] = LBrace
         THEN LET j == SkipJSONSpace(s, i + 1)
              IN IF j <= Len(s) /\ s[j] = RBrace THEN Scanned(j + 1, "object", <<>>, <<>>)
                 ELSE ScanMembers(s, j, <<>>)
    ELSE IF s[i] = "["
         THEN LET j == SkipJSONSpace(s, i + 1)
              IN IF j <= Len(s) /\ s[j] = "]" THEN Scanned(j + 1, "array", <<>>, <<>>)
                 ELSE ScanElements(s, j)
    ELSE IF s[i] = "t" THEN ScanWord(s, i, <<"t", "r", "u", "e">>, "bool")
    ELSE IF s[i] = "f" THEN ScanWord(s, i, <<"f", "a", "l", "s", "e">>, "bool")
    ELSE IF s[i] = "n" THEN ScanWord(s, i, <<"n", "u", "l", "l">>, "null")
    ELSE IF s[i] = "-" \/ IsDigit(s[i]) THEN ScanNumber(s, i)
    ELSE ScanFail

\* The elements of an array from position i (at an element), to its "]".
ScanElements(s, i) ==
    LET v == ScanValue(s, i)
        j == SkipJSONSpace(s, v.next)
    IN IF ~v.ok \/ j > Len(s) THEN ScanFail
       ELSE IF s[j] = "]" THEN Scanned(j + 1, "array", <<>>, <<>>)
       ELSE IF s[j] = "," THEN ScanElements(s, SkipJSONSpace(s, j + 1))
       ELSE ScanFail

\* The members of an object from position i (at a key), to its closing brace;
\* acc holds the members read so far, in the order of the text.
ScanMembers(s, i, acc) ==
    IF i > Len(s) \/ s[i] # Quote THEN ScanFail
    ELSE LET k == StringBody(s, i + 1, <<>>)
             c == SkipJSONSpace(s, k.next)
         IN IF ~k.ok \/ c > Len(s) \/ s[c] # ":" THEN ScanFail
            ELSE LET v == ScanValue(s, SkipJSONSpace(s, c + 1))
                     j == SkipJSONSpace(s, v.next)
                     all == Append(acc, [key |-> k.str, t |-> v.t, str |-> v.str])
                 IN IF ~v.ok \/ j > Len(s) THEN ScanFail
                    ELSE IF s[j] = RBrace THEN Scanned(j + 1, "object", <<>>, all)
                    ELSE IF s[j] = "," THEN ScanMembers(s, SkipJSONSpace(s, j + 1), all)
                    ELSE ScanFail

\* checkValid: the text is one JSON value between optional white space.
ScanDocument(s) ==
    LET v == ScanValue(s, SkipJSONSpace(s, 1))
    IN IF v.ok /\ SkipJSONSpace(s, v.next) = Len(s) + 1 THEN v ELSE ScanFail

\* The json tags of LLMResponse.
TagSummary == <<"s", "u", "m", "m", "a", "r", "y">>
TagDescription == <<"d", "e", "s", "c", "r", "i", "p", "t", "i", "o", "n">>
TagProject == <<"p", "r", "o", "j", "e", "c", "t", "_", "n", "a", "m", "e", "_",
                "s", "u", "g", "g", "e", "s", "t", "i", "o", "n">>
LLMFields == <<[name |-> "Summary", tag |-> TagSummary],
               [name |-> "Description", tag |-> TagDescription],
               [name |-> "ProjectNameSuggestion", tag |-> TagProject]>>

\* LLMResponse{}: the zero value.
ZeroResponse == [Summary |-> <<>>, Description |-> <<>>, ProjectNameSuggestion |-> <<>>]

\* The field a key decodes into: the one whose tag equals the key, else the
\* one whose tag equals it up to letter case; 0 when the key is unknown.
FieldForKey(key) ==
    IF \E i \in 1..Len(LLMFields) : LLMFields[i].tag = key
    THEN (CHOOSE i \in 1..Len(LLMFields) : LLMFields[i].tag = key)
    ELSE IF \E i \in 1..Len(LLMFields) : EqualFold(LLMFields[i].tag, key)
    THEN (CHOOSE i \in 1..Len(LLMFields) : EqualFold(LLMFields[i].tag, key))
    ELSE 0

\* Decoding the members in order into resp: a string sets its field (a later
\* duplicate overrides), null leaves it, any other value is a type error that
\* is remembered while decoding goes on.
RECURSIVE DecodeMembers(_, _, _)
DecodeMembers(members, resp, typeErr) ==
    IF members = <<>> THEN [resp |-> resp, typeErr |-> typeErr]
    ELSE LET m == Head(members)
             f == FieldForKey(m.key)
         IN IF f = 0 \/ m.t = "null" THEN DecodeMembers(Tail(members), resp, typeErr)
            ELSE IF m.t = "string"
                 THEN DecodeMembers(Tail(members), [resp EXCEPT ![LLMFields[f].name] = m.str], typeErr)
            ELSE DecodeMembers(Tail(members), resp, TRUE)

\* json.Unmarshal([]byte(text), &response) on a zero response: the error
\* ("nil", "syntax" or "type") and the response as decoded.
Unmarshal(text) ==
    LET doc == ScanDocument(text)
    IN IF ~doc.ok THEN [err |-> "syntax", resp |-> ZeroResponse]
       ELSE IF doc.t = "null" THEN [err |-> "nil", resp |-> ZeroResponse]
       ELSE IF doc.t # "object" THEN [err |-> "type", resp |-> ZeroResponse]
       ELSE LET d == DecodeMembers(doc.members, ZeroResponse, FALSE)
            IN [err |-> IF d.typeErr THEN "type" ELSE "nil", resp |-> d.resp]

----------------------------------------------------------------------------
(* internal/llm/parser.go: ParseLLMResponse *)

NoError == [kind |-> "nil", detail |-> "nil"]
ErrLLMResponseJSONFind == [kind |-> "ErrLLMResponseJSONFind", detail |-> "nil"]
ErrLLMResponseJSONUnmarshal(cause) == [kind |-> "ErrLLMResponseJSONUnmarshal", detail |-> cause]
ErrLLMResponseMissingField(name) == [kind |-> "ErrLLMResponseMissingField", detail |-> name]

NoCandidate == [found |-> FALSE, text |-> <<>>]
Candidate(text) == [found |-> TRUE, text |-> text]

\* A fallback that looks at the opening brace only.
LocateCandidatePrefixOnly(raw) ==
    LET match == FindStringSubmatch(raw)
        trimmed == TrimSpace(raw)
    IN IF Len(match) = 2 THEN Candidate(match[2])
       ELSE IF HasPrefix(trimmed, <<LBrace>>) THEN Candidate(trimmed)
       ELSE NoCandidate

\* A fallback that scans for braces: from the first opening to the last
\* closing brace of the input.
LocateCandidateBraceScan(raw) ==
    LET match == FindStringSubmatch(raw)
        opens == {i \in 1..Len(raw) : raw[i] = LBrace}
        closes == {i \in 1..Len(raw) : raw[i] = RBrace}
    IN IF Len(match) = 2 THEN Candidate(match[2])
       ELSE IF opens # {} /\ closes # {}
            THEN Candidate(Slice(raw, CHOOSE i \in opens : \A j \in opens : i <= j, SeqMax(closes)))
       ELSE NoCandidate

\* Lines 41-60: the text taken for the JSON object, before the last trim.
\* A fenced match wins; else the whole input, trimmed, when it starts with an
\* opening and ends with a closing brace.
LocateCandidate(raw) ==
    LET match == FindStringSubmatch(raw)
        trimmed == TrimSpace(raw)
    IN IF Len(match) = 2 THEN Candidate(match[2])
       ELSE IF HasPrefix(trimmed, <<LBrace>>) /\ HasSuffix(trimmed, <<RBrace>>)
            THEN Candidate(trimmed)
       ELSE NoCandidate

\* The two checks in the other order.
ValidateProjectFirst(resp) ==
    IF resp.ProjectNameSuggestion = <<>> THEN ErrLLMResponseMissingField("project_name_suggestion")
    ELSE IF resp.Summary = <<>> THEN ErrLLMResponseMissingField("summary")
    ELSE NoError

\* The check of the summary alone.
ValidateSummaryOnly(resp) ==
    IF resp.Summary = <<>> THEN ErrLLMResponseMissingField("summary") ELSE NoError

\* Lines 75-86: the validation of a decoded response, summary first.
Validate(resp) ==
    IF resp.Summary = <<>> THEN ErrLLMResponseMissingField("summary")
    ELSE IF resp.ProjectNameSuggestion = <<>> THEN ErrLLMResponseMissingField("project_name_suggestion")
    ELSE NoError

\* A decoding failure passed on to the validation.
AfterUnmarshalOneErrorKind(text, u) ==
    [jsonStr |-> Candidate(text), unmarshalCalls |-> 1,
     response |-> u.resp, err |-> Validate(u.resp)]

\* Lines 69-86: what the call returns once json.Unmarshal has given u for
\* the text: the decoding error with a zero response, else the validation.
AfterUnmarshal(text, u) ==
    IF u.err # "nil"
    THEN [jsonStr |-> Candidate(text), unmarshalCalls |-> 1,
          response |-> ZeroResponse, err |-> ErrLLMResponseJSONUnmarshal(u.err)]
    ELSE [jsonStr |-> Candidate(text), unmarshalCalls |-> 1,
          response |-> u.resp, err |-> Validate(u.resp)]

\* Lines 63-86: the one call of json.Unmarshal on the trimmed candidate.
DecodeCandidate(text) == AfterUnmarshal(text, Unmarshal(text))

\* ParseLLMResponse(rawResponse): the candidate, the number of calls of
\* json.Unmarshal, and the two results.
ParseLLMResponse(raw) ==
    LET located == LocateCandidate(raw)
    IN IF ~located.found
       THEN [jsonStr |-> NoCandidate, unmarshalCalls |-> 0,
             response |-> ZeroResponse, err |-> ErrLLMResponseJSONFind]
       ELSE DecodeCandidate(TrimSpace(located.text))

\* The call of ParseLLMResponse on the input of this behaviour.
ParseLLMResponseCall ==
    /\ pc = "call"
    /\ \E r \in {ParseLLMResponse(rawResponse)} :
          /\ jsonStr' = r.jsonStr
          /\ unmarshalCalls' = r.unmarshalCalls
          /\ response' = r.response
          /\ err' = r.err
    /\ pc' = "done"
    /\ UNCHANGED <<rawResponse, shape, pathVars, searchVars, createVars>>

----------------------------------------------------------------------------
(* The inputs of ParseLLMResponse that the model runs it on *)

\* Fences are 3..MaxTicks backticks long.
MaxTicks == 4
\* White space around a text is 0..MaxPad characters long.
MaxPad == 2

\* n characters of white space, line breaks and blanks in turn.
Pad(n) == [i \in 1..n |-> IF i % 2 = 1 THEN "\n" ELSE " "]
Pads == {Pad(n) : n \in 0..MaxPad}

TagNone == <<>>
Tags == {TagNone, <<"j", "s", "o", "n">>, <<"J", "s", "O", "N">>}

\* The text of a JSON string literal that decodes to v.
RECURSIVE EscapeBody(_)
EscapeBody(v) ==
    IF v = <<>> THEN <<>>
    ELSE (CASE Head(v) = Quote -> <<Backslash, Quote>>
            [] Head(v) = Backslash -> <<Backslash, Backslash>>
            [] Head(v) = "\n" -> <<Backslash, "n">>
            [] OTHER -> <<Head(v)>>) \o EscapeBody(Tail(v))
StringLit(v) == <<Quote>> \o EscapeBody(v) \o <<Quote>>

\* Member values: absent, or the text of a value with its type and content.
Absent == [has |-> FALSE, t |-> "none", v |-> <<>>, text |-> <<>>]
StrVal(v) == [has |-> TRUE, t |-> "string", v |-> v, text |-> StringLit(v)]
NullVal == [has |-> TRUE, t |-> "null", v |-> <<>>, text |-> <<"n", "u", "l", "l">>]
NumVal == [has |-> TRUE, t |-> "number", v |-> <<>>, text |-> <<"1", "0">>]

\* The texts of keys and values; Fenced itself holds a fenced pair of braces.
Texts ==
    [A |-> <<"a">>,
     Web |-> <<"W", "e", "b">>,
     Quoted |-> <<"x", Quote, Backslash, "\n", "y">>,
     Braces |-> <<"}", "{">>,
     Ticks |-> <<"a", " ">> \o Ticks(3),
     Fenced |-> Ticks(3) \o <<LBrace, RBrace>> \o Ticks(3),
     X |-> <<"x">>,
     SUMMARY |-> <<"S", "U", "M", "M", "A", "R", "Y">>]

MemberText(key, val) == StringLit(key) \o <<":">> \o val.text

RECURSIVE JoinMembers(_)
JoinMembers(ms) ==
    IF ms = <<>> THEN <<>>
    ELSE IF Len(ms) = 1 THEN Head(ms)
    ELSE Head(ms) \o <<",", " ">> \o JoinMembers(Tail(ms))

\* The members a description gives, in the order summary, description,
\* project_name_suggestion, extra.
Extra ==
    [None |-> [kind |-> "none", text |-> <<>>],
     String |-> [kind |-> "unknown", text |-> MemberText(Texts.X, StrVal(Texts.A))],
     Nested |-> [kind |-> "unknown",
                 text |-> StringLit(Texts.X) \o <<":", LBrace>>
                          \o MemberText(TagSummary, StrVal(Texts.Web)) \o <<RBrace>>],
     List |-> [kind |-> "unknown",
               text |-> StringLit(Texts.X) \o <<":", "[", "1", ",", "t", "r", "u", "e", "]">>],
     Folded |-> [kind |-> "folded", text |-> MemberText(Texts.SUMMARY, StrVal(Texts.Web))]]
Extras == {Extra.None, Extra.String, Extra.Nested, Extra.List, Extra.Folded}

ObjectText(o) ==
    <<LBrace>> \o
    JoinMembers(SelectSeq(<<IF o.S.has THEN MemberText(TagSummary, o.S) ELSE <<>>,
                            IF o.D.has THEN MemberText(TagDescription, o.D) ELSE <<>>,
                            IF o.P.has THEN MemberText(TagProject, o.P) ELSE <<>>,
                            o.extra.text>>, LAMBDA m : m # <<>>))
    \o <<RBrace>>

SummaryValues == {Absent, StrVal(<<>>), StrVal(Texts.A), StrVal(Texts.Quoted), StrVal(Texts.Fenced), NullVal, NumVal}
DescriptionValues == {Absent, StrVal(<<>>), StrVal(Texts.Web), NumVal}
ProjectValues == {Absent, StrVal(<<>>), StrVal(Texts.Web), StrVal(Texts.Braces)}

Objects == {[S |-> sv, D |-> dv, P |-> pv, extra |-> x] :
              sv \in SummaryValues, dv \in DescriptionValues, pv \in ProjectValues, x \in Extras}

NoObject == [S |-> Absent, D |-> Absent, P |-> Absent, extra |-> Extra.None]

\* shape: kind, the parts whose concatenation is the input, and for kind
\* "object" the object the text was written from.
Shape(kind, parts, obj) == [kind |-> kind, parts |-> parts, obj |-> obj]

\* kind "object": a JSON object alone, white space around it.
ObjectShapes == {Shape("object", <<p, ObjectText(o), p>>, o) : p \in Pads, o \in Objects}

\* Fence interiors: objects that validate, that lack a field, that hold
\* backticks, and brace-delimited texts that are no JSON.
Interior ==
    [Good |-> ObjectText([S |-> StrVal(Texts.A), D |-> Absent, P |-> StrVal(Texts.Web),
                          extra |-> Extra.None]),
     Ticks |-> ObjectText([S |-> StrVal(Texts.Ticks), D |-> Absent, P |-> StrVal(Texts.Web),
                           extra |-> Extra.None]),
     NoProject |-> ObjectText([S |-> StrVal(Texts.A), D |-> StrVal(Texts.Web), P |-> Absent,
                               extra |-> Extra.None]),
     Empty |-> <<LBrace, RBrace>>,
     NotJSON |-> <<LBrace, "a", RBrace>>,
     Prose |-> <<"x", LBrace, RBrace>>]
Interiors == {Interior.Good, Interior.Ticks, Interior.NoProject, Interior.Empty,
              Interior.NotJSON, Interior.Prose}

ProseBefore == {<<>>, <<"H", "i", ":", "\n">>, <<LBrace, "x", RBrace, " ", Tick>>}
ProseAfter == {<<>>, <<"\n", "o", "k">>, <<" ", RBrace, Tick, Tick>>, <<" ", "e", "n", "d", RBrace>> \o Ticks(3)}

\* kind "block": prose, an opening fence, a tag, the interior between white
\* space, the closing fence, prose.
\* parts: <<before, open, tag, pad, interior, pad, close, after>>
BlockShapes ==
    {Shape("block", <<b, Ticks(n), t, p, j, p, Ticks(n), a>>, NoObject) :
        b \in ProseBefore, n \in 3..MaxTicks, t \in Tags, p \in Pads, j \in Interiors, a \in ProseAfter}

Between == {<<"\n">>, <<" ", "o", "r", ":", "\n">>}

\* kind "two": two fenced blocks with text between them.
\* parts: <<before, open, tag, interior 1, close, between, open, tag, interior 2, close, after>>
TwoBlockShapes ==
    {Shape("two", <<b, Ticks(n), t, <<"\n">> \o j1 \o <<"\n">>, Ticks(n), m,
                    Ticks(n), t, <<"\n">> \o j2 \o <<"\n">>, Ticks(n), a>>, NoObject) :
        b \in {<<>>, <<"H", "i", ":", "\n">>}, n \in 3..MaxTicks, t \in {TagNone, <<"j", "s", "o", "n">>},
        j1 \in {Interior.Good, Interior.Empty, Interior.NotJSON}, m \in Between,
        j2 \in {Interior.Good, Interior.NoProject}, a \in {<<>>, <<"\n", "o", "k">>}}

Fillers == {<<>>, <<"x">>, <<"\n">> \o Interior.Good, <<"\n">> \o Interior.Good \o <<"\n">>,
            <<" ", RBrace>>, <<LBrace, RBrace, Tick, Tick>>, <<" ", "a", RBrace, " ">>}

\* kind "open": one fence that is never closed.
\* parts: <<before, open, tag, what follows>>
OpenFenceShapes ==
    {Shape("open", <<b, Ticks(n), t, f>>, NoObject) :
        b \in {<<>>, <<"H", "i", "\n">>, <<LBrace>>, <<" ", LBrace, Quote, "a", Quote, ":", Quote>>},
        n \in 3..MaxTicks, t \in {TagNone, <<"j", "s", "o", "n">>}, f \in Fillers}

PlainTexts ==
    {<<>>, <<"J", "u", "s", "t", " ", "t", "e", "x", "t", ".">>, <<LBrace>>, <<RBrace>>,
     <<RBrace, LBrace>>, <<LBrace, RBrace>>, <<"x", LBrace, RBrace>>, <<LBrace, RBrace, "x">>,
     <<LBrace, RBrace, " ", LBrace, RBrace>>, <<LBrace, "x">>, <<"x", RBrace>>,
     <<Quote, "a", Quote>>, <<"[", "]">>, <<"n", "u", "l", "l">>, <<Tick, Tick>>,
     <<LBrace, Tick, Tick, RBrace>>, Interior.Ticks,
     <<LBrace>> \o MemberText(TagSummary, StrVal(Texts.A)) \o <<",", RBrace>>,
     <<LBrace>> \o StringLit(TagSummary) \o <<":", Quote, "a", RBrace>>,
     <<LBrace>> \o StringLit(TagSummary) \o <<" ", Quote, "a", Quote, RBrace>>,
     <<LBrace>> \o MemberText(TagSummary, NumVal) \o <<RBrace, RBrace>>,
     <<LBrace>> \o MemberText(TagSummary, StrVal(Texts.A)) \o <<"\n", ",", "\t">>
        \o MemberText(TagProject, StrVal(Texts.Web)) \o <<"\r", RBrace>>}

Wraps == Pads \cup {<<"VT", "\t">>, <<"\f">>}

\* kind "plain": a text without a fence, white space around it.
PlainShapes == {Shape("plain", <<p, t, p>>, NoObject) : p \in Wraps, t \in PlainTexts}

Shapes == ObjectShapes \cup BlockShapes \cup TwoBlockShapes \cup OpenFenceShapes \cup PlainShapes

NoResult == [val |-> [kind |-> "nil"], found |-> FALSE, visited |-> <<>>, out |-> <<>>]

InitParse ==
    /\ shape \in Shapes
    /\ rawResponse = Concat(shape.parts)
    /\ pc = "call"
    /\ jsonStr = NoCandidate
    /\ unmarshalCalls = 0
    /\ response = ZeroResponse
    /\ err = NoError
    /\ data = [kind |-> "nil"]
    /\ path = <<>>
    /\ pathPc = "idle"
    /\ ret = NoResult
    /\ SearchIdle
    /\ CreateIdle

NextParse == ParseLLMResponseCall

SpecParse == InitParse /\ [][NextParse]_vars

----------------------------------------------------------------------------
(* Claims about ParseLLMResponse *)

Done == pc = "done"

\* What the claims read off the input, apart from the call itself.
Located == LocateCandidate(rawResponse)
Decoded == Unmarshal(TrimSpace(Located.text))
IsJSONObject(text) == ScanDocument(text).ok /\ ScanDocument(text).t = "object"
Braced(text) == Len(text) >= 1 /\ text[1] = LBrace /\ text[Len(text)] = RBrace

\* The number of fences of a text: its maximal runs of three or more backticks.
FenceRuns(s) ==
    Cardinality({i \in 1..Len(s) : TicksAt(s, i) /\ (i = 1 \/ s[i-1] # Tick)})

\* C1: for an input made of prose, one fenced block that holds a JSON object,
\* and prose, the candidate handed to the JSON parser is the interior of the
\* fence without its leading and trailing white space.
C1_CandidateIsFenceInterior ==
    (Done /\ shape.kind = "block" /\ IsJSONObject(shape.parts[5]))
        => jsonStr = Candidate(TrimSpace(shape.parts[4] \o shape.parts[5] \o shape.parts[6]))

\* C2: a JSON object whose keys summary, description and
\* project_name_suggestion hold the strings S, D and P, S and P not empty,
\* decodes to {S, D, P} without an error; without the description key the
\* description is empty; unknown keys change nothing.
C2_ObjectRoundTrip ==
    (/\ Done /\ shape.kind = "object"
     /\ shape.obj.S.t = "string" /\ shape.obj.S.v # <<>>
     /\ shape.obj.P.t = "string" /\ shape.obj.P.v # <<>>
     /\ shape.obj.D.t \in {"none", "string"}
     /\ shape.obj.extra.kind \in {"none", "unknown"})
        => /\ err = NoError
           /\ response = [Summary |-> shape.obj.S.v, Description |-> shape.obj.D.v,
                          ProjectNameSuggestion |-> shape.obj.P.v]

\* C3: when the candidate decodes, the missing-field error names the first
\* empty required field in the order summary, project_name_suggestion:
\* summary whenever the summary is empty, project_name_suggestion only when
\* the summary is not empty.
C3_FirstMissingFieldNamed ==
    (Done /\ Located.found /\ Decoded.err = "nil")
        => /\ Decoded.resp.Summary = <<>> => err = ErrLLMResponseMissingField("summary")
           /\ (Decoded.resp.Summary # <<>> /\ Decoded.resp.ProjectNameSuggestion = <<>>)
                 => err = ErrLLMResponseMissingField("project_name_suggestion")
           /\ err = ErrLLMResponseMissingField("project_name_suggestion")
                 => response.Summary # <<>>

C3_Witness ==
    /\ Done /\ Located.found /\ Decoded.err = "nil"
    /\ Decoded.resp.Summary = <<>> /\ Decoded.resp.ProjectNameSuggestion = <<>>
    /\ err = ErrLLMResponseMissingField("summary")

\* C4: the error is nil exactly when a candidate was located, it decoded as a
\* JSON object, and summary and project_name_suggestion are both not empty;
\* so a response returned without error has a summary and a project
\* suggestion, whatever its description.
C4_NilErrorIffValid ==
    Done => /\ (err = NoError) <=>
                  (/\ Located.found /\ Decoded.err = "nil"
                   /\ Decoded.resp.Summary # <<>> /\ Decoded.resp.ProjectNameSuggestion # <<>>)
            /\ err = NoError => (response.Summary # <<>> /\ response.ProjectNameSuggestion # <<>>)

C4_Witness ==
    /\ Done /\ err = NoError /\ response.Description = <<>>
    /\ response.Summary # <<>> /\ response.ProjectNameSuggestion # <<>>

\* C5: every call ends in one of four outcomes, decided in this order: no
\* candidate located (ErrLLMResponseJSONFind), else the candidate does not
\* decode (ErrLLMResponseJSONUnmarshal), else a required field is empty
\* (ErrLLMResponseMissingField), else success; a decoding failure is never
\* reported as a missing field, nor a missing field as a decoding failure.
C5_OutcomePrecedence ==
    Done =>
        LET valid == Decoded.resp.Summary # <<>> /\ Decoded.resp.ProjectNameSuggestion # <<>>
        IN /\ err.kind \in {"nil", "ErrLLMResponseJSONFind", "ErrLLMResponseJSONUnmarshal",
                            "ErrLLMResponseMissingField"}
           /\ (err.kind = "ErrLLMResponseJSONFind") <=> ~Located.found
           /\ (err.kind = "ErrLLMResponseJSONUnmarshal") <=> (Located.found /\ Decoded.err # "nil")
           /\ (err.kind = "ErrLLMResponseMissingField") <=>
                  (Located.found /\ Decoded.err = "nil" /\ ~valid)
           /\ (err.kind = "nil") <=> (Located.found /\ Decoded.err = "nil" /\ valid)

\* A candidate that does not decode and, had it been validated, would lack
\* its fields, reported as a decoding failure.
C5_Witness ==
    /\ Done /\ Located.found /\ Decoded.err # "nil"
    /\ err.kind = "ErrLLMResponseJSONUnmarshal" /\ response = ZeroResponse

\* C6: when no fenced block matches, the input without its surrounding white
\* space is the candidate if and only if it starts with an opening and ends
\* with a closing brace; otherwise the call fails with ErrLLMResponseJSONFind
\* and json.Unmarshal is not called.
C6_FallbackIffBraced ==
    (Done /\ FindStringSubmatch(rawResponse) = <<>>)
        => /\ Braced(TrimSpace(rawResponse)) => jsonStr = Candidate(TrimSpace(rawResponse))
           /\ ~Braced(TrimSpace(rawResponse))
                 => (jsonStr = NoCandidate /\ err = ErrLLMResponseJSONFind /\ unmarshalCalls = 0)

C6_Witness ==
    /\ Done /\ FindStringSubmatch(rawResponse) = <<>>
    /\ Braced(TrimSpace(rawResponse)) /\ TrimSpace(rawResponse) # rawResponse
    /\ jsonStr = Candidate(TrimSpace(rawResponse)) /\ unmarshalCalls = 1

\* C7 as stated: an input with an opening fence and no closing fence after
\* it fails with ErrLLMResponseJSONFind, and no candidate is taken from its
\* braces.
C7_OpenFenceAlwaysFails ==
    (Done /\ FenceRuns(rawResponse) = 1)
        => (err = ErrLLMResponseJSONFind /\ jsonStr = NoCandidate)

\* C7 as amended: an input whose only fence is never closed fails with
\* ErrLLMResponseJSONFind unless the whole input, without its surrounding
\* white space, starts with an opening and ends with a closing brace; then
\* that whole text is the candidate.
C7_OpenFenceFailsUnlessBraced ==
    (Done /\ FenceRuns(rawResponse) = 1)
        => IF Braced(TrimSpace(rawResponse))
           THEN jsonStr = Candidate(TrimSpace(rawResponse))
           ELSE err = ErrLLMResponseJSONFind /\ jsonStr = NoCandidate /\ unmarshalCalls = 0

\* An unclosed fence followed by an object: no candidate.
C7_Witness ==
    /\ Done /\ shape.kind = "open" /\ FenceRuns(rawResponse) = 1
    /\ \E i \in 1..Len(rawResponse) : rawResponse[i] = LBrace
    /\ \E i \in 1..Len(rawResponse) : rawResponse[i] = RBrace
    /\ ~Braced(TrimSpace(rawResponse))
    /\ err = ErrLLMResponseJSONFind /\ jsonStr = NoCandidate

\* C8: with two fenced blocks in the input, the candidate is the interior of
\* the first block, without its surrounding white space, and nothing of the
\* text between the blocks or of the second block.
C8_FirstBlockOnly ==
    (Done /\ shape.kind = "two") => jsonStr = Candidate(TrimSpace(shape.parts[4]))

JsonCaseMixes == {<<a, b, c, d>> : a \in {"j", "J"}, b \in {"s", "S"}, c \in {"o", "O"}, d \in {"n", "N"}}

\* The input of a block shape with another tag and another fence length.
BlockVariant(parts, tag, n) ==
    Concat(<<parts[1], Ticks(n), tag, parts[4], parts[5], parts[6], Ticks(n), parts[8]>>)

\* C9: a fenced block opened without a language tag gives the same candidate
\* and the same outcome as the same block opened with the tag json in any
\* mix of upper and lower case, and as the same block with longer fences.
\* (The interior is what follows the fence and the tag: it starts with
\* neither a backtick nor the letters of the tag. The block is the only
\* fenced text of the input: the prose around it holds no fence.)
C9_TagAndFenceLengthIrrelevant ==
    (/\ Done /\ shape.kind = "block" /\ shape.parts[3] = TagNone /\ Len(shape.parts[2]) = 3
     /\ FenceRuns(shape.parts[1]) = 0 /\ FenceRuns(shape.parts[8]) = 0)
        => \A tag \in JsonCaseMixes \cup {TagNone}, n \in 3..MaxTicks :
              LET v == ParseLLMResponse(BlockVariant(shape.parts, tag, n))
              IN v.jsonStr = jsonStr /\ v.err = err /\ v.response = response

C9_Witness ==
    /\ Done /\ shape.kind = "block" /\ shape.parts[3] = TagNone /\ Len(shape.parts[2]) = 3
    /\ FenceRuns(shape.parts[1]) = 0 /\ FenceRuns(shape.parts[8]) = 0
    /\ err = NoError /\ jsonStr = Candidate(shape.parts[5]) /\ shape.parts[4] # <<>>
    /\ ParseLLMResponse(BlockVariant(shape.parts, <<"J", "S", "O", "N">>, MaxTicks)).err = NoError

----------------------------------------------------------------------------
(* cmd/search.go: getValueByPath and getValueRecursive over reflect values.  *)
(* A value is a record with the field kind: a string (standing for every    *)
(* kind that is neither struct, map, pointer nor interface), a pointer or an *)
(* interface (nil, or holding a value), a struct with its fields (declared  *)
(* name, json tag, exported or not, value; no embedded fields, as in the     *)
(* records of the repository), a map with its key kind and entries, or       *)
(* invalid (the zero reflect.Value).                                         *)

Invalid == [kind |-> "invalid"]
\* The untyped nil that getValueByPath returns.
Nil == [kind |-> "nil"]
StringOf(str) == [kind |-> "string", str |-> str]
NilPtr == [kind |-> "ptr", isNil |-> TRUE, elem |-> Invalid]
PtrTo(v) == [kind |-> "ptr", isNil |-> FALSE, elem |-> v]
NilInterface == [kind |-> "interface", isNil |-> TRUE, elem |-> Invalid]
InterfaceOf(v) == [kind |-> "interface", isNil |-> FALSE, elem |-> v]
Field(name, tag, val) == [name |-> name, tag |-> tag, exported |-> TRUE, val |-> val]
Unexported(name, tag, val) == [name |-> name, tag |-> tag, exported |-> FALSE, val |-> val]
StructOf(typ, fields) == [kind |-> "struct", typ |-> typ, fields |-> fields]
Entry(key, val) == [key |-> key, val |-> val]
MapOf(keyKind, entries) == [kind |-> "map", keyKind |-> keyKind, entries |-> entries]

\* strings.Split(s, sep) for a one-character separator.
RECURSIVE Split(_, _)
Split(s, sep) ==
    LET cuts == {i \in 1..Len(s) : s[i] = sep}
    IN IF cuts = {} THEN <<s>>
       ELSE LET c == CHOOSE i \in cuts : \A j \in cuts : i <= j
            IN <<Slice(s, 1, c - 1)>> \o Split(Slice(s, c + 1, Len(s)), sep)

\* Lines 285-294: the dereferencing loop. The value under every pointer and
\* interface, or nil-reference when one of them is nil.
RECURSIVE Dereference(_)
Dereference(current) ==
    IF current.kind \in {"ptr", "interface"}
    THEN IF current.isNil THEN [ok |-> FALSE, val |-> Invalid]
         ELSE IF current.elem.kind = "invalid" THEN [ok |-> FALSE, val |-> Invalid]
         ELSE Dereference(current.elem)
    ELSE [ok |-> TRUE, val |-> current]

\* reflect's FieldByNameFunc with strings.EqualFold: the index of the one field
\* whose name matches; 0 when none matches and when several do (they cancel
\* each other).
FieldByNameFold(fields, part) ==
    LET hits == {i \in 1..Len(fields) : EqualFold(fields[i].name, part)}
    IN IF Cardinality(hits) = 1 THEN CHOOSE i \in hits : TRUE ELSE 0

\* strings.Split(jsonTag, ",")[0]
TagName(jsonTag) == Split(jsonTag, ",")[1]

\* A tag lookup that finds nothing.
FieldByTagNone(fields, part) == 0

\* Lines 319-334: the first field, in declaration order, whose tag name equals
\* the segment and whose tag is not "-", and that is exported; 0 when none.
FieldByTag(fields, part) ==
    LET hits == {i \in 1..Len(fields) :
                    /\ TagName(fields[i].tag) = part /\ fields[i].tag # <<"-">>
                    /\ fields[i].exported}
    IN IF hits = {} THEN 0 ELSE CHOOSE i \in hits : \A j \in hits : i <= j

\* A name lookup that ignores the tag of the field it finds.
FieldByNameAnyTag(fields, part) ==
    LET i == FieldByNameFold(fields, part)
    IN IF i # 0 /\ fields[i].exported THEN i ELSE 0

\* A name lookup that gives way to a field whose tag name is the segment.
FieldByNameAfterTag(fields, part) ==
    LET i == FieldByNameFold(fields, part)
    IN IF FieldByTag(fields, part) # 0 THEN 0
       ELSE IF i # 0 /\ fields[i].exported /\ fields[i].tag # <<"-">> THEN i ELSE 0

\* Lines 301-314: the field found by name, 0 when the name matches no single
\* field, an unexported one, or one tagged "-".
FieldByName(fields, part) ==
    LET i == FieldByNameFold(fields, part)
    IN IF i # 0 /\ fields[i].exported /\ fields[i].tag # <<"-">> THEN i ELSE 0

\* Lines 318-338: what the tag lookup prints: one line on entry, one per field
\* looked at, one for each match, and one when nothing is found.
TagLookupOutput(fields, part) ==
    LET hit == FieldByTag(fields, part)
        last == IF hit = 0 THEN Len(fields) ELSE hit
        named == {i \in 1..last : TagName(fields[i].tag) = part /\ fields[i].tag # <<"-">>}
    IN <<"lookup">> \o Concat([i \in 1..last |->
                                  IF i \in named THEN <<"checking", "match">> ELSE <<"checking">>])
       \o (IF hit = 0 THEN <<"not found">> ELSE <<>>)

\* A map lookup that folds letter case from the start.
MapLookupFoldedOnly(m, part) ==
    IF m.keyKind # "string" THEN {}
    ELSE {e.val : e \in {x \in m.entries : EqualFold(x.key, part)}}

\* Lines 343-358: the values a map lookup may yield: the entry whose key equals
\* the segment; without one, any entry whose key equals it up to letter case
\* (the iteration order of a Go map is not fixed, and the first hit is taken).
MapLookup(m, part) ==
    IF m.keyKind # "string" THEN {}
    ELSE LET exact == {e \in m.entries : e.key = part}
         IN IF exact # {} THEN {e.val : e \in exact}
            ELSE {e.val : e \in {x \in m.entries : EqualFold(x.key, part)}}

Outcome(val, found, visited, out) == [val |-> val, found |-> found, visited |-> visited, out |-> out]

\* A nil reference counted as a value found.
AtNilReferenceFound(current, visited, out) == {Outcome(current, TRUE, visited, out)}

\* Line 288: the traversal cannot go through a nil reference.
AtNilReference(current, visited, out) == {Outcome(Invalid, FALSE, visited, out)}

\* A value that is neither struct nor map counted as the value found.
AtTerminalFound(current, visited, out) == {Outcome(current, TRUE, visited, out)}

\* Lines 365-366: a value that is neither struct nor map has no members.
AtTerminal(current, visited, out) == {Outcome(Invalid, FALSE, visited, out)}

\* Lines 278-368: getValueRecursive. The set of its possible results; visited
\* lists the value of current at each call, out what was printed.
RECURSIVE GetValueRecursive(_, _, _, _)
GetValueRecursive(current, pathParts, visited, out) ==
    LET seen == Append(visited, current)
    IN IF pathParts = <<>> THEN {Outcome(current, TRUE, seen, out)}
       ELSE LET part == Head(pathParts)
                remainingParts == Tail(pathParts)
                d == Dereference(current)
            IN IF ~d.ok THEN AtNilReference(current, seen, out)
               ELSE IF d.val.kind = "struct"
                    THEN LET byName == FieldByName(d.val.fields, part)
                             byTag == FieldByTag(d.val.fields, part)
                             printed == IF byName # 0 THEN out
                                        ELSE out \o TagLookupOutput(d.val.fields, part)
                         IN IF byName # 0
                            THEN GetValueRecursive(d.val.fields[byName].val, remainingParts, seen, printed)
                            ELSE IF byTag # 0
                            THEN GetValueRecursive(d.val.fields[byTag].val, remainingParts, seen, printed)
                            ELSE {Outcome(Invalid, FALSE, seen, printed)}
               ELSE IF d.val.kind = "map"
                    THEN LET found == MapLookup(d.val, part)
                         IN IF found = {} THEN {Outcome(Invalid, FALSE, seen, out)}
                            ELSE UNION {GetValueRecursive(v, remainingParts, seen, out) : v \in found}
               ELSE AtTerminal(d.val, seen, out)

\* reflect's Value.Interface: the value as an interface{}. An interface value
\* gives what it holds, the untyped nil when it holds nothing; a pointer stays
\* a pointer, nil or not.
InterfaceValue(v) ==
    IF v.kind = "interface" THEN (IF v.isNil THEN Nil ELSE v.elem) ELSE v

\* Lines 268-275: getValueByPath. Every value reached through exported fields
\* and map entries can be interfaced, so only validity decides.
GetValueByPath(record, p) ==
    {IF ~o.found \/ o.val.kind = "invalid"
        THEN Outcome(Nil, FALSE, o.visited, o.out)
        ELSE Outcome(InterfaceValue(o.val), TRUE, o.visited, o.out) :
     o \in GetValueRecursive(record, Split(p, "."), <<>>, <<>>)}

\* The call of getValueByPath on the record and path of this behaviour.
GetValueByPathCall ==
    /\ pathPc = "call"
    /\ ret' \in GetValueByPath(data, path)
    /\ pathPc' = "done"
    /\ UNCHANGED <<data, path, parseVars, searchVars, createVars>>

----------------------------------------------------------------------------
(* The records and paths that the model runs getValueByPath on *)

\* A path has 0..MaxSegments segments.
MaxSegments == 3

\* search_test.go: the field names, JSON tag names and map keys of the
\* records of TestGetValueByPath, and their case foldings.
TestNames ==
    [Key |-> <<"K", "e", "y">>, key |-> <<"k", "e", "y">>,
     Nested |-> <<"N", "e", "s", "t", "e", "d">>, nested |-> <<"n", "e", "s", "t", "e", "d">>,
     Value |-> <<"V", "a", "l", "u", "e">>,
     nestedValue |-> <<"n", "e", "s", "t", "e", "d", "V", "a", "l", "u", "e">>,
     nestedvalue |-> <<"n", "e", "s", "t", "e", "d", "v", "a", "l", "u", "e">>,
     KEY |-> <<"K", "E", "Y">>,
     Map |-> <<"M", "a", "p">>,
     mapKey1 |-> <<"m", "a", "p", "K", "e", "y", "1">>,
     mapkey1 |-> <<"m", "a", "p", "k", "e", "y", "1">>,
     nestedMap |-> <<"n", "e", "s", "t", "e", "d", "M", "a", "p">>,
     innerKey |-> <<"i", "n", "n", "e", "r", "K", "e", "y">>,
     SkipMe |-> <<"S", "k", "i", "p", "M", "e">>,
     NoTag |-> <<"N", "o", "T", "a", "g">>,
     nil |-> <<"n", "i", "l">>,
     excluded |-> <<"-">>, none |-> <<>>]

\* mcpclient/types.go: the field names and JSON tags of Issue, IssueFields,
\* Status and IssueType.
IssueNames ==
    [Key |-> <<"K", "e", "y">>, key |-> <<"k", "e", "y">>,
     ID |-> <<"I", "D">>, id |-> <<"i", "d">>,
     Self |-> <<"S", "e", "l", "f">>, self |-> <<"s", "e", "l", "f">>,
     Fields |-> <<"F", "i", "e", "l", "d", "s">>, fields |-> <<"f", "i", "e", "l", "d", "s">>,
     Summary |-> <<"S", "u", "m", "m", "a", "r", "y">>, summary |-> TagSummary,
     Status |-> <<"S", "t", "a", "t", "u", "s">>, status |-> <<"s", "t", "a", "t", "u", "s">>,
     Name |-> <<"N", "a", "m", "e">>, name |-> <<"n", "a", "m", "e">>,
     IssueType |-> <<"I", "s", "s", "u", "e", "T", "y", "p", "e">>,
     issuetype |-> <<"i", "s", "s", "u", "e", "t", "y", "p", "e">>,
     Description |-> <<"D", "e", "s", "c", "r", "i", "p", "t", "i", "o", "n">>,
     description |-> TagDescription,
     descriptionTag |-> TagDescription \o <<",", "o", "m", "i", "t", "e", "m", "p", "t", "y">>]

v1 == StringOf(<<"v", "1">>)
v2 == StringOf(<<"v", "2">>)
v3 == StringOf(<<"v", "3">>)

\* search_test.go: type Nested struct { Value string `json:"nestedValue"` }
NestedOf(val) == StructOf("Nested", <<Field(TestNames.Value, TestNames.nestedValue, val)>>)

\* search_test.go: map[string]interface{} with a string, a nested
\* map[string]string and a nil entry.
InnerMap == MapOf("string", {Entry(TestNames.innerKey, v3)})
TestMap == MapOf("string", {Entry(TestNames.mapKey1, InterfaceOf(v2)),
                            Entry(TestNames.nestedMap, InterfaceOf(InnerMap)),
                            Entry(TestNames.nil, NilInterface)})
NilMap == MapOf("string", {})

\* search_test.go: type TestStruct struct { Key string `json:"key"`;
\* Nested *Nested `json:"nested"`; Map map[string]interface{};
\* SkipMe string `json:"-"`; NoTag string }
TestStructOf(nested, map) ==
    StructOf("TestStruct", <<Field(TestNames.Key, TestNames.key, v1),
                             Field(TestNames.Nested, TestNames.nested, nested),
                             Field(TestNames.Map, TestNames.none, map),
                             Field(TestNames.SkipMe, TestNames.excluded, v2),
                             Field(TestNames.NoTag, TestNames.none, v3)>>)

TestSegments == {TestNames.Key, TestNames.key, TestNames.Nested, TestNames.Value,
                 TestNames.nestedValue, TestNames.nestedvalue, TestNames.Map,
                 TestNames.mapkey1, TestNames.nestedMap, TestNames.innerKey,
                 TestNames.nil, TestNames.SkipMe, TestNames.excluded, <<>>}

\* mcpclient/types.go: Issue, IssueFields, Status, IssueType.
IssueOf(fields) ==
    StructOf("Issue", <<Field(IssueNames.Key, IssueNames.key, v1),
                        Field(IssueNames.ID, IssueNames.id, v2),
                        Field(IssueNames.Self, IssueNames.self, v3),
                        Field(IssueNames.Fields, IssueNames.fields, fields)>>)
IssueFieldsOf ==
    StructOf("IssueFields",
             <<Field(IssueNames.Summary, IssueNames.summary, v1),
               Field(IssueNames.Status, IssueNames.status,
                     StructOf("Status", <<Field(IssueNames.Name, IssueNames.name, v2)>>)),
               Field(IssueNames.IssueType, IssueNames.issuetype,
                     StructOf("IssueType", <<Field(IssueNames.Name, IssueNames.name, v3)>>)),
               Field(IssueNames.Description, IssueNames.descriptionTag, StringOf(<<>>))>>)

IssueSegments == {IssueNames.key, IssueNames.fields, IssueNames.Fields, IssueNames.summary,
                  IssueNames.status, IssueNames.name, IssueNames.issuetype,
                  IssueNames.description, <<>>}

\* A record passed by pointer, and references nested in references.
Lone == StructOf("Lone", <<Field(TestNames.Nested, TestNames.none, PtrTo(PtrTo(NestedOf(v1)))),
                           Field(TestNames.Map, TestNames.none, InterfaceOf(PtrTo(NestedOf(NilPtr)))),
                           Field(TestNames.Key, TestNames.none, PtrTo(NilPtr)),
                           Unexported(TestNames.key, TestNames.Value, v2)>>)
LoneSegments == {TestNames.Nested, TestNames.nested, TestNames.Map, TestNames.Key,
                 TestNames.Value, TestNames.nestedValue, <<>>}

\* A record in which a segment matches the name of one field and the JSON tag
\* name of another: Key is tagged "map" and Map is tagged "key"; the name
\* SkipMe is excluded while NoTag is tagged "skipme".
Clash == StructOf("Clash", <<Field(TestNames.Key, <<"m", "a", "p">>, v1),
                             Field(TestNames.Map, TestNames.key, v2),
                             Field(TestNames.SkipMe, TestNames.excluded, v3),
                             Field(TestNames.NoTag, <<"s", "k", "i", "p", "m", "e">>,
                                   StringOf(<<"v", "4">>))>>)
ClashSegments == {TestNames.Key, TestNames.key, TestNames.Map, <<"m", "a", "p">>,
                  TestNames.SkipMe, <<"s", "k", "i", "p", "m", "e">>, TestNames.NoTag}

\* A map[string]string with two keys that differ in letter case only.
FoldedMap == MapOf("string", {Entry(TestNames.Key, v1), Entry(TestNames.key, v2),
                              Entry(TestNames.Map, v3)})
FoldedSegments == {TestNames.Key, TestNames.key, TestNames.KEY, <<"m", "a", "p">>,
                   TestNames.NoTag}

\* The records, each with the segments its paths are written from.
DataCases ==
    {[data |-> TestStructOf(PtrTo(NestedOf(v2)), TestMap), segments |-> TestSegments],
     [data |-> TestStructOf(NilPtr, NilMap), segments |-> TestSegments],
     [data |-> PtrTo(TestStructOf(PtrTo(NestedOf(NilInterface)), TestMap)), segments |-> TestSegments],
     [data |-> IssueOf(IssueFieldsOf), segments |-> IssueSegments],
     [data |-> Lone, segments |-> LoneSegments],
     [data |-> PtrTo(PtrTo(Lone)), segments |-> LoneSegments],
     [data |-> Clash, segments |-> ClashSegments],
     [data |-> FoldedMap, segments |-> FoldedSegments],
     [data |-> NilPtr, segments |-> {TestNames.Key, <<>>}],
     [data |-> Invalid, segments |-> {TestNames.Key, <<>>}],
     [data |-> v1, segments |-> {TestNames.Key, <<>>}]}

\* The segments joined by dots.
RECURSIVE JoinPath(_)
JoinPath(segs) ==
    IF segs = <<>> THEN <<>>
    ELSE IF Len(segs) = 1 THEN Head(segs)
    ELSE Head(segs) \o <<".">> \o JoinPath(Tail(segs))

PathsOver(segments) ==
    {JoinPath(segs) : segs \in UNION {[1..n -> segments] : n \in 0..MaxSegments}}

InitPath ==
    /\ \E c \in DataCases :
          /\ data = c.data
          /\ path \in PathsOver(c.segments)
    /\ pathPc = "call"
    /\ ret = NoResult
    /\ rawResponse = <<>>
    /\ shape = Shape("plain", <<>>, NoObject)
    /\ pc = "idle"
    /\ jsonStr = NoCandidate
    /\ unmarshalCalls = 0
    /\ response = ZeroResponse
    /\ err = NoError
    /\ SearchIdle
    /\ CreateIdle

NextPath == GetValueByPathCall

SpecPath == InitPath /\ [][NextPath]_vars

----------------------------------------------------------------------------
(* Claims about getValueByPath *)

PathDone == pathPc = "done"

\* A pointer or interface that is nil, or that leads only to one that is.
RECURSIVE IsNilReference(_)
IsNilReference(v) ==
    /\ v.kind \in {"ptr", "interface"}
    /\ (v.isNil \/ IsNilReference(v.elem))

\* The call reached a nil reference while segments were left: one of the
\* values visited with a segment still to resolve is a nil reference.
ReachedNilEarly ==
    \E i \in 1..Len(ret.visited) :
        i <= Len(Split(path, ".")) /\ IsNilReference(ret.visited[i])

\* C10: when the traversal reaches a nil pointer or interface before all
\* segments are consumed, getValueByPath returns (nil, false), as an ordinary
\* result.
C10_NilReferenceIsNotFound ==
    (PathDone /\ ReachedNilEarly) => (ret.val = Nil /\ ~ret.found)

\* The path Nested.Value against a record whose Nested pointer is nil.
C10_Witness ==
    /\ PathDone /\ ReachedNilEarly
    /\ data = TestStructOf(NilPtr, NilMap)
    /\ path = TestNames.Nested \o <<".">> \o TestNames.Value
    /\ ret.val = Nil /\ ~ret.found

----------------------------------------------------------------------------
(* Claims about the steps of getValueRecursive *)

\* The segments of the path, and the steps of the call: step k looks the k-th
\* segment up in the k-th value visited, once that value is dereferenced.
Parts == Split(path, ".")
Steps == {k \in 1..Len(Parts) : k <= Len(ret.visited)}
CurrentAt(k) == Dereference(ret.visited[k])
StructSteps == {k \in Steps : CurrentAt(k).ok /\ CurrentAt(k).val.kind = "struct"}
MapSteps == {k \in Steps : CurrentAt(k).ok /\ CurrentAt(k).val.kind = "map"
                            /\ CurrentAt(k).val.keyKind = "string"}
MembersAt(k) == CurrentAt(k).val.fields

\* Step k resolved its segment: the traversal went on into another value.
Resolved(k) == Len(ret.visited) > k
ResolvedTo(k, v) == Resolved(k) /\ ret.visited[k + 1] = v

IsExcluded(f) == f.tag = <<"-">>
NameMatches(f, part) == EqualFold(f.name, part)
\* The member has the alias part: it is serialized, under that name.
HasAlias(f, part) ==
    f.exported /\ ~IsExcluded(f) /\ part # <<>> /\ TagName(f.tag) = part

\* C11: a segment that matches no declared member name case-insensitively
\* but equals the alias of a non-excluded member resolves to that member's
\* value.
C11_AliasResolves ==
    PathDone =>
        \A k \in StructSteps :
            LET fs == MembersAt(k)
                aliased == {i \in 1..Len(fs) : HasAlias(fs[i], Parts[k])}
            IN ((\A i \in 1..Len(fs) : ~NameMatches(fs[i], Parts[k])) /\ aliased # {})
               => \E i \in aliased : ResolvedTo(k, fs[i].val)

\* Nested.nestedValue against the record of the test: no field of Nested is
\* named nestedValue, the field Value is tagged so.
C11_Witness ==
    /\ PathDone
    /\ data = TestStructOf(PtrTo(NestedOf(v2)), TestMap)
    /\ path = TestNames.Nested \o <<".">> \o TestNames.nestedValue
    /\ 2 \in StructSteps
    /\ \A i \in 1..Len(MembersAt(2)) : ~NameMatches(MembersAt(2)[i], Parts[2])
    /\ ret.found /\ ret.val = v2

\* The segments a record's paths are written from.
SegmentsOf(record) == UNION {c.segments : c \in {x \in DataCases : x.data = record}}

\* The sequences of segments that differ from parts in letter case only.
RECURSIVE CaseVariants(_, _)
CaseVariants(parts, segments) ==
    IF parts = <<>> THEN {<<>>}
    ELSE {<<h>> \o t : h \in {g \in segments : EqualFold(g, Head(parts))},
                       t \in CaseVariants(Tail(parts), segments)}

\* C12: if a path resolves against a record, every path that differs from
\* it in letter case only resolves against that record too.
C12_CaseInsensitive ==
    (PathDone /\ ret.found) =>
        \A other \in CaseVariants(Parts, SegmentsOf(data)) :
            \A o \in GetValueByPath(data, JoinPath(other)) : o.found

\* C13: a member excluded from serialization (json tag "-") is never what a
\* segment resolves to, be the segment its name in any letter case or its
\* alias.
C13_ExcludedNeverResolved ==
    PathDone =>
        \A k \in StructSteps :
            \A i \in 1..Len(MembersAt(k)) :
                (/\ IsExcluded(MembersAt(k)[i])
                 /\ (NameMatches(MembersAt(k)[i], Parts[k]) \/ TagName(MembersAt(k)[i].tag) = Parts[k]))
                => ~ResolvedTo(k, MembersAt(k)[i].val)

\* The path SkipMe against the record of the test.
C13_Witness ==
    /\ PathDone
    /\ data = TestStructOf(PtrTo(NestedOf(v2)), TestMap)
    /\ path = TestNames.SkipMe
    /\ \E i \in 1..Len(MembersAt(1)) :
          IsExcluded(MembersAt(1)[i]) /\ NameMatches(MembersAt(1)[i], Parts[1])
    /\ ~ret.found /\ ret.val = Nil

\* The pairs (i, j) of members of step k such that the segment matches the
\* name of i and is the alias of j, another member.
NameAliasClashes(k) ==
    {<<i, j>> \in (1..Len(MembersAt(k))) \X (1..Len(MembersAt(k))) :
        /\ i # j
        /\ NameMatches(MembersAt(k)[i], Parts[k])
        /\ HasAlias(MembersAt(k)[j], Parts[k])}

\* C14 as stated: when a segment matches the declared name of one member and
\* the alias of a different member, resolution continues into the member
\* matched by declared name.
C14_NameWins ==
    PathDone =>
        \A k \in StructSteps :
            \A c \in NameAliasClashes(k) : ResolvedTo(k, MembersAt(k)[c[1]].val)

\* The segment matches the name of member i and of no other member.
OnlyNameMatch(k, i) ==
    \A n \in 1..Len(MembersAt(k)) : NameMatches(MembersAt(k)[n], Parts[k]) <=> n = i

\* C14, amended: when a segment matches the declared name of exactly one
\* member and the alias of a different member, resolution continues into
\* the member matched by name if that member is exported and not excluded
\* from serialization, and into the member matched by alias if it is
\* excluded.
C14_NameWinsUnlessExcluded ==
    PathDone =>
        \A k \in StructSteps :
            \A c \in NameAliasClashes(k) :
                OnlyNameMatch(k, c[1]) =>
                    /\ (MembersAt(k)[c[1]].exported /\ ~IsExcluded(MembersAt(k)[c[1]]))
                       => ResolvedTo(k, MembersAt(k)[c[1]].val)
                    /\ IsExcluded(MembersAt(k)[c[1]])
                       => (/\ ~ResolvedTo(k, MembersAt(k)[c[1]].val)
                           /\ \E d \in NameAliasClashes(k) : ResolvedTo(k, MembersAt(k)[d[2]].val))

\* The path key against Clash: Key is the name of the first member and key
\* the alias of the second; the first member's value is returned.
C14_Witness ==
    /\ PathDone
    /\ data = Clash
    /\ path = TestNames.key
    /\ <<1, 2>> \in NameAliasClashes(1)
    /\ OnlyNameMatch(1, 1)
    /\ ret.found /\ ret.val = v1

\* C15: in a string-keyed dictionary a key equal to the segment is used
\* whenever there is one, whatever other keys match up to letter case; a key
\* matching up to letter case is used only when none is equal; and the
\* result is not-found when no key matches up to letter case.
C15_ExactKeyFirst ==
    PathDone =>
        \A k \in MapSteps :
            LET entries == CurrentAt(k).val.entries
                exact == {e \in entries : e.key = Parts[k]}
                folded == {e \in entries : EqualFold(e.key, Parts[k])}
            IN /\ exact # {} => \E e \in exact : ResolvedTo(k, e.val)
               /\ (exact = {} /\ folded # {}) => \E e \in folded : ResolvedTo(k, e.val)
               /\ folded = {} => (~Resolved(k) /\ ~ret.found /\ ret.val = Nil)

\* The path Key against a map that holds the keys Key and key.
C15_Witness ==
    /\ PathDone
    /\ data = FoldedMap
    /\ path = TestNames.Key
    /\ 1 \in MapSteps
    /\ Cardinality({e \in CurrentAt(1).val.entries : EqualFold(e.key, Parts[1])}) = 2
    /\ ret.found /\ ret.val = v1

\* The dereferenced value is neither a struct nor a map.
IsTerminal(v) == v.kind \notin {"struct", "map", "ptr", "interface"}

\* C16: when the current value, dereferenced, is neither a keyed record nor
\* a dictionary and a segment remains, getValueByPath returns (nil, false).
C16_TerminalIsNotFound ==
    PathDone =>
        \A k \in Steps :
            (CurrentAt(k).ok /\ IsTerminal(CurrentAt(k).val)) => (ret.val = Nil /\ ~ret.found)

\* The path Key.Key against the record of the test: Key holds a string.
C16_Witness ==
    /\ PathDone
    /\ data = TestStructOf(PtrTo(NestedOf(v2)), TestMap)
    /\ path = TestNames.Key \o <<".">> \o TestNames.Key
    /\ 2 \in Steps /\ CurrentAt(2).ok /\ CurrentAt(2).val = v1
    /\ ret.val = Nil /\ ~ret.found

\* All segments were consumed: the traversal was called with no segment left.
Consumed == Len(ret.visited) = Len(Parts) + 1
FinalValue == ret.visited[Len(ret.visited)]
IsConcrete(v) == v.kind \notin {"nil", "invalid"} /\ ~IsNilReference(v)

\* C17: when all segments are consumed, found is true only if the final
\* value is concrete; a path whose last segment lands on a nil pointer or
\* reference gives (nil, false).
C17_FoundOnlyIfConcrete ==
    (PathDone /\ Consumed) =>
        /\ ret.found => IsConcrete(ret.val)
        /\ IsNilReference(FinalValue) => (ret.val = Nil /\ ~ret.found)

\* C26: field resolution is deterministic: the path on the record gives one
\* value and one found flag, also when a map holds several keys that match
\* the segment without regard to letter case and none that matches exactly.
C26_Deterministic ==
    PathDone => \A o \in GetValueByPath(data, path) : o.val = ret.val /\ o.found = ret.found

\* C27: getValueByPath writes nothing to standard output or to any other
\* stream, also for a path that no declared field name matches.
C27_NoOutput == PathDone => ret.out = <<>>

\* C30: a segment resolves only to a member whose name equals it without
\* regard to letter case or whose declared alias equals it; an empty segment
\* resolves to no member, a member without alias included.
C30_EmptySegmentResolvesNothing ==
    PathDone =>
        \A k \in Steps :
            /\ (k \in StructSteps /\ Resolved(k)) =>
                   \E i \in 1..Len(MembersAt(k)) :
                       /\ ResolvedTo(k, MembersAt(k)[i].val)
                       /\ (NameMatches(MembersAt(k)[i], Parts[k]) \/ HasAlias(MembersAt(k)[i], Parts[k]))
            /\ Parts[k] = <<>> => ~Resolved(k)

----------------------------------------------------------------------------
(* cmd/search.go: searchRunE and extractFields *)

\* strings.Join(elems, sep)
RECURSIVE Join(_, _)
Join(elems, sep) ==
    IF elems = <<>> THEN <<>>
    ELSE IF Len(elems) = 1 THEN Head(elems)
    ELSE Head(elems) \o sep \o Join(Tail(elems), sep)

\* strings.ReplaceAll(s, old, new) for one-character strings.
ReplaceAll(s, old, new) == [i \in 1..Len(s) |-> IF s[i] = old THEN new ELSE s[i]]

\* The characters of the field paths in byte order, and the order of
\* strings that encoding/json and yaml.v3 sort the keys of a map by (for
\* these characters the two agree).
RECURSIVE StringLess(_, _)
StringLess(a, b) ==
    LET byteOrder == <<"\n", " ", ".">> \o Uppers \o Lowers
        rank(c) == CHOOSE i \in 1..Len(byteOrder) : byteOrder[i] = c
    IN IF b = <<>> THEN FALSE
       ELSE IF a = <<>> THEN TRUE
       ELSE IF Head(a) = Head(b) THEN StringLess(Tail(a), Tail(b))
       ELSE rank(Head(a)) < rank(Head(b))
RECURSIVE SortStrings(_)
SortStrings(S) ==
    IF S = {} THEN <<>>
    ELSE LET least == CHOOSE x \in S : \A y \in S \ {x} : StringLess(x, y)
         IN <<least>> \o SortStrings(S \ {least})

\* Lines 174 and 195: json.MarshalIndent and yaml.Marshal write the entries
\* of a map[string]interface{} in the sorted order of its keys.
EncodeMap(m) ==
    LET keys == SortStrings(DOMAIN m)
    IN [i \in 1..Len(keys) |-> [key |-> keys[i], value |-> m[keys[i]]]]

\* What getValueByPath returns for an issue: mcpclient.Issue holds structs and
\* strings only, no map, so the result is a single one.
Lookup(issue, fieldPath) == CHOOSE o \in GetValueByPath(issue, fieldPath) : TRUE

\* A projection that leaves out the paths that are not found.
ExtractFieldsFoundOnly(issue, fields) ==
    LET found == {fields[i] : i \in {j \in 1..Len(fields) : Lookup(issue, fields[j]).found}}
    IN [fieldPath \in found |-> Lookup(issue, fieldPath).val]

\* Lines 371-381: extractFields. A map from each path of the list to the
\* value found, nil when none is.
ExtractFields(issue, fields) ==
    [fieldPath \in {fields[i] : i \in 1..Len(fields)} |->
        IF Lookup(issue, fieldPath).found THEN Lookup(issue, fieldPath).val ELSE Nil]

\* Lines 144-158: the field list of the flag: split at commas, each entry
\* trimmed, empty entries dropped.
ParseFields(outputFieldsStr) ==
    IF outputFieldsStr = <<>> THEN <<>>
    ELSE LET rawFields == Split(outputFieldsStr, ",")
         IN SelectSeq([i \in 1..Len(rawFields) |-> TrimSpace(rawFields[i])],
                      LAMBDA f : f # <<>>)

\* fmt.Sprintf("%v", value) for the values a cell is made of: a string as it
\* is, a struct as its fields in braces, a pointer to a struct as & and the
\* struct, a nil pointer and a nil interface as <nil>.
RECURSIVE Sprintv(_)
Sprintv(value) ==
    CASE value.kind = "string" -> value.str
      [] value.kind = "struct" ->
             <<"{">> \o Join([i \in 1..Len(value.fields) |-> Sprintv(value.fields[i].val)], <<" ">>)
             \o <<"}">>
      [] value.kind = "ptr" /\ ~value.isNil /\ value.elem.kind = "struct" ->
             <<"&">> \o Sprintv(value.elem)
      [] value.kind \in {"ptr", "interface"} /\ value.isNil -> <<"<", "n", "i", "l", ">">>

\* A cell that keeps the tabs and the line ends of the text.
FormatCellRaw(o) ==
    IF o.found /\ o.val # Nil THEN Sprintv(o.val) ELSE <<>>

\* Lines 233-244: the cell for a looked-up value.
FormatCell(o) ==
    IF o.found /\ o.val # Nil
    THEN ReplaceAll(ReplaceAll(ReplaceAll(Sprintv(o.val), "\t", " "), "\n", " "), "\r", " ")
    ELSE <<>>

\* Line 211.
defaultTsvFields ==
    <<IssueNames.key,
      Join(<<IssueNames.fields, IssueNames.summary>>, <<".">>),
      Join(<<IssueNames.fields, IssueNames.status, IssueNames.name>>, <<".">>),
      Join(<<IssueNames.fields, IssueNames.issuetype, IssueNames.name>>, <<".">>)>>

\* Fields of the tsv output that follow the flag even when it lists none.
TsvFieldsOfFlag(outputFieldsStr, fields) ==
    IF outputFieldsStr # <<>> THEN fields ELSE defaultTsvFields

\* Lines 209-226: the fields of the tsv output.
TsvFields(outputFieldsStr, fields) ==
    IF outputFieldsStr # <<>> /\ Len(fields) > 0 THEN fields ELSE defaultTsvFields

\* One thing written to out: a line of text, or a document encoded as JSON
\* or YAML.
Line(text) == [kind |-> "line", text |-> text, value |-> <<>>]
Document(kind, value) == [kind |-> kind, text |-> <<>>, value |-> value]
NoIssuesFound == <<"N", "o", " ", "i", "s", "s", "u", "e", "s", " ", "f", "o", "u", "n", "d", ".">>

\* strconv of a non-negative integer, as %d prints it.
RECURSIVE Itoa(_)
Itoa(n) ==
    LET digits == <<"0", "1", "2", "3", "4", "5", "6", "7", "8", "9">>
    IN IF n < 10 THEN <<digits[n + 1]>> ELSE Itoa(n \div 10) \o <<digits[(n % 10) + 1]>>

\* The value of the field with this name.
FieldNamed(record, name) ==
    record.fields[CHOOSE i \in 1..Len(record.fields) : record.fields[i].name = name].val

\* A tsv output that writes the header for an empty collection too.
TsvOutputHeaderAlways(issues, tsvFields) ==
    <<Line(Join(tsvFields, <<"\t">>))>>
    \o [n \in 1..Len(issues) |->
           Line(Join([i \in 1..Len(tsvFields) |-> FormatCell(Lookup(issues[n], tsvFields[i]))],
                     <<"\t">>))]

\* Lines 203-247: the tsv output.
TsvOutput(issues, tsvFields) ==
    IF Len(issues) = 0 THEN <<Line(NoIssuesFound)>>
    ELSE <<Line(Join(tsvFields, <<"\t">>))>>
         \o [n \in 1..Len(issues) |->
                Line(Join([i \in 1..Len(tsvFields) |-> FormatCell(Lookup(issues[n], tsvFields[i]))],
                          <<"\t">>))]

\* Lines 249-261: the text output.
TextOutput(issues) ==
    IF Len(issues) = 0 THEN <<Line(NoIssuesFound)>>
    ELSE <<Line(<<"F", "o", "u", "n", "d", " ">> \o Itoa(Len(issues))
                \o <<" ", "i", "s", "s", "u", "e", "s", ":">>)>>
         \o [n \in 1..Len(issues) |->
                Line(<<"-", " ">> \o FieldNamed(issues[n], IssueNames.Key).str
                     \o <<" ", "-", " ">>
                     \o FieldNamed(FieldNamed(FieldNamed(issues[n], IssueNames.Fields),
                                              IssueNames.Status), IssueNames.Name).str
                     \o <<" ", "-", " ">>
                     \o FieldNamed(FieldNamed(issues[n], IssueNames.Fields),
                                   IssueNames.Summary).str)]

\* Lines 165-169 and 186-190: the projections of the issues, each encoded.
FilteredIssues(issues, fields) ==
    [n \in 1..Len(issues) |-> EncodeMap(ExtractFields(issues[n], fields))]

\* A rendering that writes the sentinel line for an empty collection in every
\* format.
RenderSentinelFirst(outputFormat, outputFieldsStr, fields, resp) ==
    IF Len(resp.Issues) = 0 THEN <<Line(NoIssuesFound)>>
    ELSE IF outputFormat = <<"j", "s", "o", "n">>
    THEN <<Document("json", IF Len(fields) > 0
                            THEN [filtered |-> TRUE, doc |-> FilteredIssues(resp.Issues, fields)]
                            ELSE [filtered |-> FALSE, doc |-> resp])>>
    ELSE IF outputFormat = <<"y", "a", "m", "l">>
    THEN <<Document("yaml", IF Len(fields) > 0
                            THEN [filtered |-> TRUE, doc |-> FilteredIssues(resp.Issues, fields)]
                            ELSE [filtered |-> FALSE, doc |-> resp.Issues])>>
    ELSE IF outputFormat = <<"t", "s", "v">>
    THEN TsvOutput(resp.Issues, TsvFields(outputFieldsStr, fields))
    ELSE TextOutput(resp.Issues)

\* Lines 160-262: what is written to out for a response.
Render(outputFormat, outputFieldsStr, fields, resp) ==
    IF outputFormat = <<"j", "s", "o", "n">>
    THEN <<Document("json", IF Len(fields) > 0
                            THEN [filtered |-> TRUE, doc |-> FilteredIssues(resp.Issues, fields)]
                            ELSE [filtered |-> FALSE, doc |-> resp])>>
    ELSE IF outputFormat = <<"y", "a", "m", "l">>
    THEN <<Document("yaml", IF Len(fields) > 0
                            THEN [filtered |-> TRUE, doc |-> FilteredIssues(resp.Issues, fields)]
                            ELSE [filtered |-> FALSE, doc |-> resp.Issues])>>
    ELSE IF outputFormat = <<"t", "s", "v">>
    THEN TsvOutput(resp.Issues, TsvFields(outputFieldsStr, fields))
    ELSE TextOutput(resp.Issues)

\* Lines 100-113: the query, from the flag or else from the arguments.
HasQuery(jqlFlag, cmdArgs) == jqlFlag # <<>> \/ Len(cmdArgs) > 0

\* Lines 93-265: searchRunE.
SearchRunECall ==
    /\ searchPc = "call"
    /\ IF ~HasQuery(flags.jql, args)
       THEN /\ runErr' = "no JQL query provided"
            /\ errOut' = 2
            /\ searchCalls' = 0
            /\ outWriter' = <<>>
       ELSE IF mcp.err # "nil"
       THEN /\ runErr' = mcp.err
            /\ errOut' = IF mcp.err = "ErrRequestExecute" THEN 2 ELSE 1
            /\ searchCalls' = 1
            /\ outWriter' = <<>>
       ELSE /\ runErr' = "nil"
            /\ errOut' = 0
            /\ searchCalls' = 1
            /\ outWriter' = Render(flags.output, flags.outputFields,
                                   ParseFields(flags.outputFields), mcp)
    /\ searchPc' = "done"
    /\ UNCHANGED <<flags, args, mcp, parseVars, pathVars, createVars>>

----------------------------------------------------------------------------
(* The commands and responses that the model runs searchRunE on *)

\* A response holds 0..MaxIssues issues.
MaxIssues == 2

\* An issue of the shape of those of createMockSearchResponse.
IssueWith(key, summary, status, description) ==
    StructOf("Issue",
        <<Field(IssueNames.Key, IssueNames.key, StringOf(key)),
          Field(IssueNames.ID, IssueNames.id, v2),
          Field(IssueNames.Self, IssueNames.self, v3),
          Field(IssueNames.Fields, IssueNames.fields,
                StructOf("IssueFields",
                    <<Field(IssueNames.Summary, IssueNames.summary, StringOf(summary)),
                      Field(IssueNames.Status, IssueNames.status,
                            StructOf("Status", <<Field(IssueNames.Name, IssueNames.name, StringOf(status))>>)),
                      Field(IssueNames.IssueType, IssueNames.issuetype,
                            StructOf("IssueType", <<Field(IssueNames.Name, IssueNames.name, v3)>>)),
                      Field(IssueNames.Description, IssueNames.descriptionTag,
                            StringOf(description))>>))>>)

\* Two issues; the second holds a tab, a line break and a carriage return,
\* and an empty summary.
MockIssues ==
    {IssueWith(<<"T", "-", "1">>, <<"a", " ", "b">>, <<"O", "p", "e", "n">>, <<>>),
     IssueWith(<<"T", "-", "2">>, <<>>, <<"I", "n", "\t", "P">>, <<"c", "\n", "d", "\r">>)}

MockResponses ==
    {[err |-> "nil", Issues |-> is] : is \in UNION {[1..n -> MockIssues] : n \in 0..MaxIssues}}
    \cup {[err |-> e, Issues |-> <<>>] : e \in {"ErrRequestExecute", "ErrMCPServerError"}}

missingField == <<"m", "i", "s", "s", "i", "n", "g", "F", "i", "e", "l", "d">>

\* Values of the flag --output-fields.
FieldLists ==
    {<<>>,
     IssueNames.key,
     Join(<<IssueNames.key, missingField>>, <<",">>),
     Join(<<IssueNames.key, IssueNames.id>>, <<",">>),
     Join(<<IssueNames.id, IssueNames.key>>, <<",", " ">>),
     Join(<<IssueNames.key, IssueNames.key>>, <<",">>),
     Join(<<Join(<<IssueNames.fields, IssueNames.status, IssueNames.name>>, <<".">>),
            Join(<<IssueNames.fields, IssueNames.description>>, <<".">>),
            IssueNames.fields>>, <<" ", ",">>),
     <<",", " ", ",">>,
     Join(<<IssueNames.key, <<"i", "\n", "d">>>>, <<",">>)}

OutputFormats == {<<"j", "s", "o", "n">>, <<"y", "a", "m", "l">>, <<"t", "s", "v">>,
                  <<"t", "e", "x", "t">>, <<>>}

InitSearch ==
    /\ flags \in [jql : {<<>>, <<"q">>}, output : OutputFormats, outputFields : FieldLists]
    /\ args \in {<<>>, <<<<"q">>>>}
    /\ mcp \in MockResponses
    /\ outWriter = <<>>
    /\ errOut = 0
    /\ runErr = "nil"
    /\ searchCalls = 0
    /\ searchPc = "call"
    /\ rawResponse = <<>>
    /\ shape = Shape("plain", <<>>, NoObject)
    /\ pc = "idle"
    /\ jsonStr = NoCandidate
    /\ unmarshalCalls = 0
    /\ response = ZeroResponse
    /\ err = NoError
    /\ data = [kind |-> "nil"]
    /\ path = <<>>
    /\ pathPc = "idle"
    /\ ret = NoResult
    /\ CreateIdle

NextSearch == SearchRunECall

SpecSearch == InitSearch /\ [][NextSearch]_vars

----------------------------------------------------------------------------
(* Claims about searchRunE and extractFields *)

\* searchRunE ran, got a response and wrote it out.
Rendered == searchPc = "done" /\ runErr = "nil" /\ searchCalls = 1

\* The field list of the command, and the output when it is the encoding of
\* projections: one document holding one projection for each issue.
RequestedFields == ParseFields(flags.outputFields)
Projected ==
    /\ Rendered
    /\ Len(outWriter) = 1
    /\ outWriter[1].kind \in {"json", "yaml"}
    /\ outWriter[1].value.filtered
Projections == outWriter[1].value.doc
KeysOf(projection) == [i \in 1..Len(projection) |-> projection[i].key]

\* C18: the projection of every issue has exactly the requested path strings
\* as its keys; each key holds the resolved value when the path is found and
\* null when it is not, whatever the other paths and the other issues are.
C18_EveryRequestedPathPresent ==
    Projected =>
        /\ Len(Projections) = Len(mcp.Issues)
        /\ \A n \in 1..Len(Projections) :
              /\ {Projections[n][i].key : i \in 1..Len(Projections[n])}
                     = {RequestedFields[i] : i \in 1..Len(RequestedFields)}
              /\ \A i, j \in 1..Len(Projections[n]) :
                     Projections[n][i].key = Projections[n][j].key => i = j
              /\ \A i \in 1..Len(Projections[n]) :
                     \A o \in GetValueByPath(mcp.Issues[n], Projections[n][i].key) :
                         Projections[n][i].value = IF o.found THEN o.val ELSE Nil

\* Two different issues projected over key and missingField: each projection
\* holds the issue's key and a null.
C18_Witness ==
    /\ Projected
    /\ RequestedFields = <<IssueNames.key, missingField>>
    /\ Len(mcp.Issues) = 2 /\ mcp.Issues[1] # mcp.Issues[2]
    /\ \A n \in 1..2 :
          \E i, j \in 1..Len(Projections[n]) :
              /\ Projections[n][i].key = IssueNames.key
              /\ Projections[n][i].value = FieldNamed(mcp.Issues[n], IssueNames.Key)
              /\ Projections[n][j].key = missingField
              /\ Projections[n][j].value = Nil

\* C19: in the JSON and YAML rendering of each projection the entries stand
\* in the order in which the caller listed the field paths.
C19_CallerOrder ==
    Projected => \A n \in 1..Len(Projections) : KeysOf(Projections[n]) = RequestedFields

\* C20: in tsv mode an empty collection gives exactly one line, the
\* sentinel "No issues found.", with no header row and no data row, with
\* and without a field list.
C20_TsvEmptyIsSentinelOnly ==
    (Rendered /\ flags.output = <<"t", "s", "v">> /\ Len(mcp.Issues) = 0) =>
        /\ Len(outWriter) = 1
        /\ outWriter[1].kind = "line"
        /\ outWriter[1].text = <<"N", "o", " ", "i", "s", "s", "u", "e", "s", " ", "f", "o", "u", "n", "d", ".">>

\* An empty collection in tsv mode with the field list key,id.
C20_Witness ==
    /\ Rendered /\ flags.output = <<"t", "s", "v">> /\ Len(mcp.Issues) = 0
    /\ RequestedFields = <<IssueNames.key, IssueNames.id>>
    /\ Len(outWriter) = 1
    /\ outWriter[1].text = NoIssuesFound

\* The tsv output of a collection that is not empty, the text written to out
\* (every Fprintln ends its text with a line feed), and its lines.
TsvRendered == Rendered /\ flags.output = <<"t", "s", "v">> /\ Len(mcp.Issues) >= 1
Written == Join([n \in 1..Len(outWriter) |-> outWriter[n].text \o <<"\n">>], <<>>)
WrittenLines == LET pieces == Split(Written, "\n") IN SubSeq(pieces, 1, Len(pieces) - 1)
CellsOf(line) == Split(line, "\t")

\* The fields the rows are made of: the parsed list of the caller, or the
\* four default paths.
EffectiveFields ==
    IF Len(RequestedFields) > 0 THEN RequestedFields
    ELSE <<<<"k", "e", "y">>,
           <<"f", "i", "e", "l", "d", "s", ".", "s", "u", "m", "m", "a", "r", "y">>,
           <<"f", "i", "e", "l", "d", "s", ".", "s", "t", "a", "t", "u", "s", ".", "n", "a", "m", "e">>,
           <<"f", "i", "e", "l", "d", "s", ".", "i", "s", "s", "u", "e", "t", "y", "p", "e", ".",
             "n", "a", "m", "e">>>>

\* C21: in tsv mode n >= 1 issues and k effective fields give exactly n + 1
\* lines: the first is the k field paths joined by tabs, and line i + 1 holds
\* exactly k cells separated by tabs, those of the i-th issue, whatever the
\* field values and the field paths are.
C21_TsvLinesAndCells ==
    TsvRendered =>
        /\ Len(WrittenLines) = Len(mcp.Issues) + 1
        /\ WrittenLines[1] = Join(EffectiveFields, <<"\t">>)
        /\ \A n \in 1..Len(mcp.Issues) :
              /\ n + 1 <= Len(WrittenLines)
              /\ Len(CellsOf(WrittenLines[n + 1])) = Len(EffectiveFields)
              /\ \A i \in 1..Len(EffectiveFields) :
                     \A o \in GetValueByPath(mcp.Issues[n], EffectiveFields[i]) :
                         Len(CellsOf(WrittenLines[n + 1])[i])
                             = IF o.found THEN Len(Sprintv(o.val)) ELSE 0

\* The text a cell is made from: the value's text form.
CellText(n, i) ==
    LET o == Lookup(mcp.Issues[n], EffectiveFields[i])
    IN IF o.found THEN Sprintv(o.val) ELSE <<>>
LineEnds == {"\t", "\n", "\r"}

\* C22: in tsv mode no data cell holds a tab, a carriage return or a line
\* feed: each of them in the value's text is one space in the cell, and every
\* other character stands unchanged at its place.
C22_CellsSanitised ==
    TsvRendered =>
        \A n \in 1..Len(mcp.Issues) :
            /\ Len(outWriter) = Len(mcp.Issues) + 1
            /\ Len(CellsOf(outWriter[n + 1].text)) = Len(EffectiveFields)
            /\ \A i \in 1..Len(EffectiveFields) :
                   LET cell == CellsOf(outWriter[n + 1].text)[i]
                   IN /\ \A j \in 1..Len(cell) : cell[j] \notin LineEnds
                      /\ Len(cell) = Len(CellText(n, i))
                      /\ \A j \in 1..Len(cell) :
                             cell[j] = IF CellText(n, i)[j] \in LineEnds THEN " "
                                       ELSE CellText(n, i)[j]

\* The status "In<tab>P" and the description "c<LF>d<CR>" of the second
\* mock issue written as the cells "In P" and "c d ".
C22_Witness ==
    /\ TsvRendered
    /\ RequestedFields = <<Join(<<IssueNames.fields, IssueNames.status, IssueNames.name>>, <<".">>),
                           Join(<<IssueNames.fields, IssueNames.description>>, <<".">>),
                           IssueNames.fields>>
    /\ \E n \in 1..Len(mcp.Issues) :
          /\ CellText(n, 1) = <<"I", "n", "\t", "P">>
          /\ CellText(n, 2) = <<"c", "\n", "d", "\r">>
          /\ CellsOf(outWriter[n + 1].text)[1] = <<"I", "n", " ", "P">>
          /\ CellsOf(outWriter[n + 1].text)[2] = <<"c", " ", "d", " ">>

\* C23: in tsv mode the header and the rows are those of the caller's parsed
\* field list when it is not empty, and otherwise of key, fields.summary,
\* fields.status.name, fields.issuetype.name in this order.
C23_EffectiveFieldList ==
    TsvRendered =>
        /\ outWriter[1].text = Join(EffectiveFields, <<"\t">>)
        /\ \A n \in 1..Len(mcp.Issues) :
               Len(CellsOf(outWriter[n + 1].text)) = Len(EffectiveFields)

\* A flag that lists no field, ", ,": the header holds the four default
\* columns and the first cell of the first row is the key of the issue.
C23_Witness ==
    /\ TsvRendered
    /\ flags.outputFields = <<",", " ", ",">>
    /\ Len(CellsOf(outWriter[1].text)) = 4
    /\ CellsOf(outWriter[2].text)[1] = FieldNamed(mcp.Issues[1], IssueNames.Key).str

\* C25: in json and yaml mode, for every collection, the empty one too, one
\* document is written: the encoded list of the projections, one for each
\* issue, when the parsed field list is not empty, and the encoded source as
\* the server gave it otherwise (the response in json mode, its issue list in
\* yaml mode); the sentinel line is never written.
C25_DocumentsNeverSentinel ==
    (Rendered /\ flags.output \in {<<"j", "s", "o", "n">>, <<"y", "a", "m", "l">>}) =>
        /\ Len(outWriter) = 1
        /\ outWriter[1].kind = (IF flags.output = <<"y", "a", "m", "l">> THEN "yaml" ELSE "json")
        /\ outWriter[1].text # <<"N", "o", " ", "i", "s", "s", "u", "e", "s", " ", "f", "o", "u", "n", "d", ".">>
        /\ IF Len(RequestedFields) > 0
           THEN /\ outWriter[1].value.filtered
                /\ Len(outWriter[1].value.doc) = Len(mcp.Issues)
                /\ \A n \in 1..Len(mcp.Issues) :
                       /\ {outWriter[1].value.doc[n][i].key : i \in 1..Len(outWriter[1].value.doc[n])}
                              = {RequestedFields[i] : i \in 1..Len(RequestedFields)}
                       /\ \A i \in 1..Len(outWriter[1].value.doc[n]) :
                              LET o == Lookup(mcp.Issues[n], outWriter[1].value.doc[n][i].key)
                              IN outWriter[1].value.doc[n][i].value = IF o.found THEN o.val ELSE Nil
           ELSE /\ ~outWriter[1].value.filtered
                /\ outWriter[1].value.doc
                       = (IF flags.output = <<"y", "a", "m", "l">> THEN mcp.Issues ELSE mcp)

\* An empty collection in yaml mode with the field list key: the document is
\* the empty list of projections.
C25_Witness ==
    /\ Rendered /\ flags.output = <<"y", "a", "m", "l">>
    /\ Len(mcp.Issues) = 0
    /\ RequestedFields = <<IssueNames.key>>
    /\ outWriter = <<Document("yaml", [filtered |-> TRUE, doc |-> <<>>])>>

----------------------------------------------------------------------------
(* cmd/create.go: createCmdRunner.Run *)

\* Errors are named by the sentinel they wrap; "nil" is no error. A write is
\* <<stream, text>>.

\* A loader that goes on to the next file after an error and returns the
\* first error at the end.
LoadAllConfigsKeepGoing(cp) ==
    LET made == <<[name |-> "LoadConfig", err |-> cp.LoadConfig],
                  [name |-> "LoadLinks", err |-> cp.LoadLinks],
                  [name |-> "LoadSystemPrompt", err |-> cp.LoadSystemPrompt],
                  [name |-> "LoadContext", err |-> cp.LoadContext]>>
        failed == SelectSeq(made, LAMBDA c : c.err # "nil")
    IN [calls |-> made,
        err |-> IF failed = <<>> THEN "nil" ELSE failed[1].err,
        out |-> <<>>]

\* Lines 82-146: loadAllConfigs. The calls made on the ConfigProvider, the
\* error returned and the lines written to os.Stderr.
LoadAllConfigs(cp) ==
    IF cp.LoadConfig # "nil"
    THEN [calls |-> <<[name |-> "LoadConfig", err |-> cp.LoadConfig]>>,
          err |-> cp.LoadConfig,
          out |-> <<<<"os.Stderr",
                      IF cp.LoadConfig \in {"ErrConfigRead", "ErrConfigParse"}
                      THEN "Error reading or parsing config.yaml. Please check its format and permissions."
                      ELSE IF cp.LoadConfig \in {"ErrConfigDirCreate", "ErrConfigDirStat",
                                                 "ErrConfigDirNotDir"}
                      THEN "Error accessing configuration directory. Please check permissions."
                      ELSE "An unexpected error occurred loading config.yaml.">>,
                    <<"os.Stderr", "You might need to run 'tix config init'.">>>>]
    ELSE IF cp.LoadLinks # "nil"
    THEN [calls |-> <<[name |-> "LoadConfig", err |-> "nil"],
                      [name |-> "LoadLinks", err |-> cp.LoadLinks]>>,
          err |-> cp.LoadLinks,
          out |-> IF cp.LoadLinks \in {"ErrLinksRead", "ErrLinksParse"}
                  THEN <<<<"os.Stderr", "Error reading or parsing links.yaml. Please check its format and permissions.">>,
                         <<"os.Stderr", "You might need to run 'tix config init' to create a default.">>>>
                  ELSE <<<<"os.Stderr", "An unexpected error occurred loading links.yaml.">>>>]
    ELSE IF cp.LoadSystemPrompt # "nil"
    THEN [calls |-> <<[name |-> "LoadConfig", err |-> "nil"],
                      [name |-> "LoadLinks", err |-> "nil"],
                      [name |-> "LoadSystemPrompt", err |-> cp.LoadSystemPrompt]>>,
          err |-> cp.LoadSystemPrompt,
          out |-> IF cp.LoadSystemPrompt = "ErrSystemPromptRead"
                  THEN <<<<"os.Stderr", "Error reading system_prompt.txt. Please check its permissions.">>,
                         <<"os.Stderr", "You might need to run 'tix config init' to create a default.">>>>
                  ELSE <<<<"os.Stderr", "An unexpected error occurred loading system_prompt.txt.">>>>]
    ELSE [calls |-> <<[name |-> "LoadConfig", err |-> "nil"],
                      [name |-> "LoadLinks", err |-> "nil"],
                      [name |-> "LoadSystemPrompt", err |-> "nil"],
                      [name |-> "LoadContext", err |-> cp.LoadContext]>>,
          err |-> cp.LoadContext,
          out |-> IF cp.LoadContext = "nil" THEN <<>>
                  ELSE IF cp.LoadContext = "ErrContextRead"
                  THEN <<<<"os.Stderr", "Error reading context.md. Please check its permissions.">>,
                         <<"os.Stderr", "You might need to run 'tix config init' to create a default.">>>>
                  ELSE <<<<"os.Stderr", "An unexpected error occurred loading context.md.">>>>]

\* A confirmation that takes every answer that begins with y.
ConfirmInteractivelyByFirstLetter(interactive, stdin) ==
    IF ~interactive THEN [proceed |-> TRUE, err |-> "nil", out |-> <<>>]
    ELSE LET cleanedInput == ToLower(TrimSpace(stdin))
         IN IF cleanedInput # <<>> /\ cleanedInput[1] = "y"
            THEN [proceed |-> TRUE, err |-> "nil", out |-> <<>>]
            ELSE [proceed |-> FALSE, err |-> "nil", out |-> <<<<"os.Stdout", "Aborted.">>>>]

\* Lines 151-182: confirmInteractively. It prints the issue details and the
\* question on os.Stdout (lines 157-163); reader.ReadString('\n') returns
\* the input up to and with the first line feed, or all of it with io.EOF
\* when it holds none.
ConfirmInteractively(interactive, stdin) ==
    IF ~interactive THEN [proceed |-> TRUE, err |-> "nil", out |-> <<>>]
    ELSE LET Prompt ==
                 <<<<"os.Stdout", "--- Issue Details ---">>, <<"os.Stdout", "Project Key: %s">>,
                   <<"os.Stdout", "Issue Type:  %s">>, <<"os.Stdout", "Summary:     %s">>,
                   <<"os.Stdout", "Description:%s">>, <<"os.Stdout", "---------------------">>,
                   <<"os.Stdout", "Create this issue? [y/N]: ">>>>
             ends == {i \in 1..Len(stdin) : stdin[i] = "\n"}
             input == IF ends = {} THEN stdin
                      ELSE Slice(stdin, 1, CHOOSE i \in ends : \A j \in ends : i <= j)
             cleanedInput == ToLower(TrimSpace(input))
         IN IF ends = {}
            THEN [proceed |-> FALSE, err |-> "EOF",
                  out |-> Prompt \o <<<<"os.Stdout", "Error reading input: EOF">>>>]
            ELSE IF cleanedInput # <<"y">> /\ cleanedInput # <<"y", "e", "s">>
            THEN [proceed |-> FALSE, err |-> "nil", out |-> Prompt \o <<<<"os.Stdout", "Aborted.">>>>]
            ELSE [proceed |-> TRUE, err |-> "nil", out |-> Prompt]

\* Lines 186-206: formatOutput. The created issue as JSON, or the text that
\* begins "Successfully created JIRA issue:".
FormatOutput(outputFormat) ==
    IF outputFormat = "json" THEN <<<<"cmd.Out", "{\"key\": ..., \"self\": ...}">>>>
    ELSE <<<<"cmd.Out", "Successfully created JIRA issue:">>>>

\* Line 260: Run loads the configurations.
LoadAllConfigsCall ==
    /\ createPc = "loadAllConfigs"
    /\ \E cp \in [LoadConfig : {"nil", "ErrConfigRead", "ErrConfigDirStat", "config load error"},
                  LoadLinks : {"nil", "ErrLinksParse", "links load error"},
                  LoadSystemPrompt : {"nil", "ErrSystemPromptRead", "prompt load error"},
                  LoadContext : {"nil", "ErrContextRead", "context load error"}] :
          \E r \in {LoadAllConfigs(cp)} :
              /\ calls' = calls \o r.calls
              /\ createOut' = createOut \o r.out
              /\ createErr' = r.err
              /\ createPc' = IF r.err # "nil" THEN "returned" ELSE "GenerateTicketDetails"
    /\ UNCHANGED <<cmd, parseVars, pathVars, searchVars>>

\* Lines 272-301: the LLM client, when there is one, generates the ticket
\* details.
GenerateTicketDetailsCall ==
    /\ createPc = "GenerateTicketDetails"
    /\ IF cmd.llmClient = "nil"
       THEN /\ createErr' = "LLM client not initialized"
            /\ createOut' = createOut \o <<<<"cmd.Err", "Error: LLM client not initialized.">>,
                                           <<"cmd.Err", "Please check your LLM provider configuration and API key setup">>>>
            /\ createPc' = "returned"
            /\ calls' = calls
       ELSE \E e \in {"nil", "ErrAPIKeyNotFound", "ErrLLMCompletion", "ErrLLMResponseMissingField",
                      "llm error"} :
                /\ calls' = Append(calls, [name |-> "GenerateTicketDetails", err |-> e])
                /\ createErr' = e
                /\ createPc' = IF e # "nil" THEN "returned" ELSE "MapSuggestionToKey"
                /\ createOut' = createOut \o
                       (CASE e = "nil" -> <<>>
                          [] e = "ErrAPIKeyNotFound" ->
                                 <<<<"cmd.Err", "Error: LLM API key not found.">>,
                                   <<"cmd.Err", "Please store it using 'tix config set-key <your-key>'">>>>
                          [] e = "ErrLLMCompletion" ->
                                 <<<<"cmd.Err", "Error communicating with the LLM API: %v">>,
                                   <<"cmd.Err", "Please check your network connection and API key/endpoint configuration.">>>>
                          [] e = "ErrLLMResponseMissingField" ->
                                 <<<<"cmd.Err", "Error processing the response from the LLM: %v">>,
                                   <<"cmd.Err", "The LLM might have returned an unexpected format. Check logs for details.">>>>
                          [] OTHER ->
                                 <<<<"cmd.Err", "An unexpected error occurred during LLM processing: %v">>>>)
    /\ UNCHANGED <<cmd, parseVars, pathVars, searchVars>>

\* Lines 304-315: the project mapper maps the suggested project name.
MapSuggestionToKeyCall ==
    /\ createPc = "MapSuggestionToKey"
    /\ \E e \in {"nil", "ErrProjectMappingFailed", "mapping error"} :
          /\ calls' = Append(calls, [name |-> "MapSuggestionToKey", err |-> e])
          /\ createErr' = e
          /\ createPc' = IF e # "nil" THEN "returned" ELSE "Resolve"
          /\ createOut' = createOut \o
                 (IF e = "nil" THEN <<>>
                  ELSE IF e = "ErrProjectMappingFailed"
                  THEN <<<<"cmd.Err", "Error: Could not map LLM's project suggestion '%s' to a known project key.">>,
                         <<"cmd.Err", "Please check your ~/.ticketron/links.yaml file or the LLM's output.">>>>
                  ELSE <<<<"cmd.Err", "An unexpected error occurred during project mapping: %v">>>>)
    /\ UNCHANGED <<cmd, parseVars, pathVars, searchVars>>

\* Lines 318-341: the resolver gives the issue type (it returns no error);
\* then Run needs the MCP client and prepares the request.
ResolveCall ==
    /\ createPc = "Resolve"
    /\ calls' = Append(calls, [name |-> "Resolve", err |-> "nil"])
    /\ IF cmd.mcpClient = "nil"
       THEN /\ createErr' = "MCP client not initialized"
            /\ createOut' = createOut \o <<<<"cmd.Err", "Error: MCP client not initialized.">>,
                                           <<"cmd.Err", "Please check the 'mcp_server_url' in your configuration ('tix config show').">>>>
            /\ createPc' = "returned"
       ELSE /\ createPc' = "confirmInteractively"
            /\ UNCHANGED <<createErr, createOut>>
    /\ UNCHANGED <<cmd, parseVars, pathVars, searchVars>>

\* Lines 345-353: the confirmation; without it Run returns, with the error of
\* the read or with nil.
ConfirmInteractivelyCall ==
    /\ createPc = "confirmInteractively"
    /\ \E r \in {ConfirmInteractively(cmd.interactive, cmd.stdin)} :
          /\ createOut' = createOut \o r.out
          /\ createErr' = r.err
          /\ createPc' = IF r.err # "nil" \/ ~r.proceed THEN "returned" ELSE "CreateIssue"
    /\ UNCHANGED <<cmd, calls, parseVars, pathVars, searchVars>>

\* Lines 357-385: the MCP client creates the issue, and Run writes the result
\* (json.MarshalIndent does not fail on a CreateIssueResponse).
CreateIssueCall ==
    /\ createPc = "CreateIssue"
    /\ \E e \in {"nil", "ErrRequestExecute", "ErrMCPServerError", "ErrMCPServerErrorUnparseable",
                 "ErrResponseDecode", "mcp error"} :
          /\ calls' = Append(calls, [name |-> "CreateIssue", err |-> e])
          /\ createErr' = e
          /\ createOut' = createOut \o
                 (CASE e = "nil" -> FormatOutput(cmd.output)
                    [] e = "ErrRequestExecute" ->
                           <<<<"cmd.Err", "Error connecting to the MCP server: %v">>,
                             <<"cmd.Err", "Please ensure the MCP server is running and the URL is correct.">>>>
                    [] e = "ErrMCPServerError" ->
                           <<<<"cmd.Err", "MCP server returned an error: %v">>>>
                    [] e = "ErrMCPServerErrorUnparseable" ->
                           <<<<"cmd.Err", "MCP server returned an error with an unparseable response body: %v">>>>
                    [] e = "ErrResponseDecode" ->
                           <<<<"cmd.Err", "Failed to decode the success response from the MCP server: %v">>>>
                    [] OTHER ->
                           <<<<"cmd.Err", "An unexpected error occurred while creating the issue via MCP: %v">>>>)
    /\ createPc' = "returned"
    /\ UNCHANGED <<cmd, parseVars, pathVars, searchVars>>

----------------------------------------------------------------------------
(* The commands that the model runs createCmdRunner.Run on *)

\* What the user types at the question: answers that end with a line feed,
\* with blanks and capitals, and input that ends before a line feed.
Answers ==
    {<<"y", "\n">>, <<"y", "e", "s", "\n">>, <<" ", "Y", "E", "S", " ", "\r", "\n">>,
     <<"\t", "Y", "\n">>, <<"n", "\n">>, <<"\n">>, <<"y", "e", "s", "s", "\n">>,
     <<"y", " ", "e", "s", "\n">>, <<"n", "o", "\n", "y", "e", "s", "\n">>,
     <<"y", "e">>, <<"n">>, <<"y">>, <<>>}

InitCreate ==
    /\ cmd \in [interactive : BOOLEAN, output : {"json", "text", ""}, stdin : Answers,
                llmClient : {"nil", "client"}, mcpClient : {"nil", "client"}]
    /\ createPc = "loadAllConfigs"
    /\ calls = <<>>
    /\ createErr = "nil"
    /\ createOut = <<>>
    /\ SearchIdle
    /\ rawResponse = <<>>
    /\ shape = Shape("plain", <<>>, NoObject)
    /\ pc = "idle"
    /\ jsonStr = NoCandidate
    /\ unmarshalCalls = 0
    /\ response = ZeroResponse
    /\ err = NoError
    /\ data = [kind |-> "nil"]
    /\ path = <<>>
    /\ pathPc = "idle"
    /\ ret = NoResult

NextCreate ==
    \/ LoadAllConfigsCall
    \/ GenerateTicketDetailsCall
    \/ MapSuggestionToKeyCall
    \/ ResolveCall
    \/ ConfirmInteractivelyCall
    \/ CreateIssueCall

SpecCreate == InitCreate /\ [][NextCreate]_vars

----------------------------------------------------------------------------
(* Claims about createCmdRunner.Run *)

Returned == createPc = "returned"
Called(name) == \E i \in 1..Len(calls) : calls[i].name = name
Succeeded(name) == \E i \in 1..Len(calls) : calls[i].name = name /\ calls[i].err = "nil"

\* C28: Run calls its collaborators in the order LoadConfig, LoadLinks,
\* LoadSystemPrompt, LoadContext, GenerateTicketDetails, MapSuggestionToKey,
\* Resolve, CreateIssue, each at most once; when one of them returns an
\* error no later one is called and Run returns that error.
C28_FixedOrderErrorStops ==
    LET order == <<"LoadConfig", "LoadLinks", "LoadSystemPrompt", "LoadContext",
                   "GenerateTicketDetails", "MapSuggestionToKey", "Resolve", "CreateIssue">>
    IN /\ Len(calls) <= Len(order)
       /\ \A i \in 1..Len(calls) :
             /\ i <= Len(order) /\ calls[i].name = order[i]
             /\ calls[i].err # "nil" =>
                    /\ i = Len(calls)
                    /\ Returned
                    /\ createErr = calls[i].err

\* LoadLinks failed: it is the second and last call, and Run returned its
\* error.
C28_Witness ==
    /\ Returned
    /\ calls = <<[name |-> "LoadConfig", err |-> "nil"],
                 [name |-> "LoadLinks", err |-> "links load error"]>>
    /\ createErr = "links load error"

\* The answer of the user: the input up to the first line feed, or all of
\* it when it holds none; trimmed and in lower case.
AnswerEnded == \E i \in 1..Len(cmd.stdin) : cmd.stdin[i] = "\n"
Answer == Split(cmd.stdin, "\n")[1]
Confirmed == ToLower(TrimSpace(Answer)) \in {<<"y">>, <<"y", "e", "s">>}
\* Run came to the question: it has the issue type and an MCP client.
Asked == cmd.interactive /\ Called("Resolve") /\ cmd.mcpClient # "nil"
          /\ createPc \in {"CreateIssue", "returned"}
SuccessWritten == \E i \in 1..Len(createOut) : createOut[i][1] = "cmd.Out"

\* C29 as stated: CreateIssue is called only after generation and mapping
\* succeeded and, with the interactive flag, after the answer was y or yes;
\* on any other answer Run returns nil, without CreateIssue and without a
\* success message.
C29_ConfirmedOrNil ==
    /\ Called("CreateIssue") =>
           /\ Succeeded("GenerateTicketDetails") /\ Succeeded("MapSuggestionToKey")
           /\ cmd.interactive => Confirmed
    /\ (Asked /\ ~Confirmed) =>
           /\ Returned /\ createErr = "nil"
           /\ ~Called("CreateIssue") /\ ~SuccessWritten

\* C29, amended: the same for an answer that ends with a line feed; when the
\* input ends before a line feed Run returns the error of the read, also
\* without CreateIssue and without a success message.
C29_ConfirmedOrNilOrReadError ==
    /\ Called("CreateIssue") =>
           /\ Succeeded("GenerateTicketDetails") /\ Succeeded("MapSuggestionToKey")
           /\ cmd.interactive => (AnswerEnded /\ Confirmed)
    /\ (Asked /\ AnswerEnded /\ ~Confirmed) =>
           /\ Returned /\ createErr = "nil"
           /\ ~Called("CreateIssue") /\ ~SuccessWritten
    /\ (Asked /\ ~AnswerEnded) =>
           /\ Returned /\ createErr = "EOF"
           /\ ~Called("CreateIssue") /\ ~SuccessWritten

\* The answer " YES " and a carriage return: CreateIssue is called and the
\* success message written.
C29_Witness ==
    /\ Returned /\ cmd.interactive
    /\ cmd.stdin = <<" ", "Y", "E", "S", " ", "\r", "\n">>
    /\ Called("CreateIssue") /\ createErr = "nil" /\ SuccessWritten

====
